---- MODULE Spec2Model ----
(***************************************************************************)
(* The position lifecycle of app.py: the two position slots (active_trade, *)
(* active_futures_trade), the /trade and /futures command handlers that    *)
(* claim a slot and open a position, and the two monitor threads           *)
(* (monitor_trade, monitor_futures_trade) that poll P&L and close.         *)
(*                                                                         *)
(* Amounts are integers: prices, quantities and dollar thresholds are      *)
(* counted in whole units.  A block executed under trade_lock or           *)
(* futures_lock is one atomic step.  The exchange is the environment: the  *)
(* spot wallet balance is a variable that changes under the monitor's      *)
(* feet; prices, futures positions and the success of every API call are   *)
(* inputs drawn at the call.                                               *)
(*                                                                         *)
(* Spec is the lifecycle.  SpecCalc examines single calls (one poll cycle, *)
(* one command, one order function, the technical filter) on arguments     *)
(* drawn in the initial state; there the order quantities are counted in   *)
(* millionths and the indicators are exact fractions.  SpecFair is Spec    *)
(* with the progress of a handler that has claimed a slot.  SpecLock       *)
(* follows the threads statement by statement through their lock blocks,   *)
(* with the holder of each lock in the state.                              *)
(***************************************************************************)
EXTENDS Integers, FiniteSets, Sequences, TLC

\* ---------------------------------------------------------------- bounds
NumThreads == 2      \* command-handler threads of the bot's worker pool
MaxQty == 2          \* largest filled quantity / wallet balance
MaxPrice == 3        \* prices range over 1..MaxPrice
MaxUsd == 1          \* profit targets and stop-losses range over 1..MaxUsd
MaxLag == 0          \* extra seconds a poll cycle may take beyond its sleep

\* ------------------------------------------------------ program constants
max_errors == 5
balance_check_interval == 10
poll_sleep == 2

\* Python's None: in a text field, and in a numeric field (outside every range).
None == "None"
Nil == -1000
Threads == 1..NumThreads
Prices == 1..MaxPrice
FillPrices == 2..(MaxPrice - 1)
Quantities == 1..MaxQty
FillQuantities == {MaxQty}
Usd == 1..MaxUsd
Sides == {"LONG", "SHORT"}
Leverages == {2}

Min(a, b) == IF a < b THEN a ELSE b
Abs(a) == IF a < 0 THEN -a ELSE a

Max3(x, y, z) ==
    LET m == IF x < y THEN y ELSE x IN IF m < z THEN z ELSE m

VARIABLES
    active_trade,          \* the spot slot
    active_futures_trade,  \* the derivatives slot
    pc,                    \* where each command-handler thread is
    loc,                   \* the locals of each command-handler thread
    mt,                    \* the monitor_trade thread: locals and history
    mf,                    \* the monitor_futures_trade thread
    wallet,                \* exchange: balance of the spot asset
    reply,                 \* the message the last step sent to a command's chat
    calc,                  \* one call under examination: its inputs, its result
    sync                   \* the two locks and the code point of every thread

vars == <<active_trade, active_futures_trade, pc, loc, mt, mf, wallet, reply, calc, sync>>

\* ------------------------------------------------------------- the slots
EmptyTrade ==
    [running |-> FALSE, pair |-> None, buy_price |-> Nil, quantity |-> Nil,
     profit_target |-> Nil, stop_loss |-> Nil, asset |-> None]

EmptyFuturesTrade ==
    [running |-> FALSE, pair |-> None, entry_price |-> Nil, quantity |-> Nil,
     profit_target |-> Nil, stop_loss |-> Nil, side |-> None, leverage |-> 1,
     position_amt |-> Nil]

NoLocals == [side |-> None, price |-> Nil, quantity |-> Nil]

\* A monitor thread that does not exist (yet).
NoMonitor ==
    [pc |-> "off", entry |-> Nil, quantity |-> Nil, profit_target |-> Nil,
     stop_loss |-> Nil, side |-> None,
     consecutive_errors |-> 0, elapsed |-> 0,
     polled |-> None, streak |-> 0, reason |-> None,
     closeCalls |-> 0, orders |-> 0, notes |-> 0]

\* No call is under examination.
NoCalc == [op |-> None, done |-> FALSE]

\* The locks are not looked at: a lock block is one step.
NoSync == [held |-> None]

Init ==
    /\ active_trade = EmptyTrade
    /\ active_futures_trade = EmptyFuturesTrade
    /\ pc = [t \in Threads |-> "idle"]
    /\ loc = [t \in Threads |-> NoLocals]
    /\ mt = NoMonitor
    /\ mf = NoMonitor
    /\ wallet = 0
    /\ reply = None
    /\ calc = NoCalc
    /\ sync = NoSync

\* ------------------------------------------------------ the spot monitor
\* calculate_pnl: value of the balance now minus its value at the buy price.
calculate_pnl(buy_price, current_balance, current_price) ==
    current_balance * current_price - current_balance * buy_price

\* History: where a polled P&L lies relative to the position's thresholds.
Zone(current_pnl, profit_target, stop_loss) ==
    IF current_pnl > profit_target THEN "above_target"
    ELSE IF current_pnl = profit_target THEN "at_target"
    ELSE IF stop_loss # Nil /\ current_pnl = 0 - stop_loss THEN "at_stop"
    ELSE IF stop_loss # Nil /\ current_pnl < 0 - stop_loss THEN "below_stop"
    ELSE "between"

\* A fault variant of ProfitHit: the target itself does not count.
ProfitHitStrict(current_pnl, profit_target) == current_pnl > profit_target

\* if current_pnl >= profit_target
ProfitHit(current_pnl, profit_target) == current_pnl >= profit_target

\* A fault variant of StopHit: the stop level itself does not count.
StopHitStrict(current_pnl, stop_loss) ==
    stop_loss # Nil /\ current_pnl < -stop_loss

\* elif stop_loss is not None and current_pnl <= -stop_loss
StopHit(current_pnl, stop_loss) ==
    stop_loss # Nil /\ current_pnl <= -stop_loss

\* if current_time - last_balance_check >= balance_check_interval
BalanceCheckDue(elapsed) == elapsed >= balance_check_interval

\* A fault variant of ExternallyClosed: an empty wallet is not noticed.
ExternallyClosedBelowZero(current_balance, quantity) == current_balance < 0

\* if current_balance < (quantity * 0.01)
ExternallyClosed(current_balance, quantity) == 100 * current_balance < quantity

\* if consecutive_errors >= max_errors
ErrorsExhausted(consecutive_errors) == consecutive_errors >= max_errors

\* A fault variant of ErrorsAfterSuccess: a success does not reset the count.
ErrorsKept(consecutive_errors) == consecutive_errors

\* consecutive_errors = 0 after a successful fetch
ErrorsAfterSuccess(consecutive_errors) == 0

\* get_asset_balance: the wallet balance, 0.0 when the query raises.
get_asset_balance(ok) == IF ok THEN wallet ELSE 0

\* time.sleep(2) and the time the next cycle's calls take.
Slept(elapsed, lag) == Min(elapsed + poll_sleep + lag, balance_check_interval)

\* The reset block of the external-closure, profit and stop exits.
ResetTrade(slot) == EmptyTrade

\* The error-exhaustion exit: active_trade['running'] = False, nothing else.
StopRunning(slot) == [slot EXCEPT !.running = FALSE]

\* The monitor leaves its loop (break): the thread ends and its locals with
\* it; what it did (why it stopped, its orders and messages) stays on record.
Exit(m, why) ==
    [NoMonitor EXCEPT !.pc = "done", !.reason = why, !.polled = m.polled,
        !.streak = m.streak, !.closeCalls = m.closeCalls, !.orders = m.orders,
        !.notes = m.notes]

\* The monitor enters its profit or stop branch: the loop's clock is no
\* longer read.
Closing(m, branch) == [m EXCEPT !.pc = branch, !.elapsed = 0]

\* External closure seen at a balance check: one message, no order.
SpotExternalExit(m) == Exit([m EXCEPT !.notes = @ + 1], "external")

\* A failed P&L fetch: count it; at max_errors send one message and stop.
SpotFetchFailed(m, lag) ==
    LET n == m.consecutive_errors + 1
        c == [m EXCEPT !.consecutive_errors = n, !.streak = @ + 1, !.polled = None]
    IN  IF ErrorsExhausted(n)
        THEN Exit([c EXCEPT !.notes = @ + 1], "errors")
        ELSE [c EXCEPT !.elapsed = Slept(@, lag)]

\* A successful P&L fetch: compare with the target, then with the stop-loss.
SpotFetched(m, current_pnl, lag) ==
    LET c == [m EXCEPT !.consecutive_errors = ErrorsAfterSuccess(@),
                       !.streak = 0, !.polled = Zone(current_pnl, m.profit_target, m.stop_loss)]
    IN  IF ProfitHit(current_pnl, m.profit_target) THEN Closing(c, "close_profit")
        ELSE IF StopHit(current_pnl, m.stop_loss) THEN Closing(c, "close_stop")
        ELSE [c EXCEPT !.elapsed = Slept(@, lag)]

\* One cycle of the loop of monitor_trade, up to the decision to sell.
monitor_trade_poll ==
    /\ mt.pc = "run"
    /\ active_trade.running
    /\ \E okb \in BOOLEAN :
         LET due == BalanceCheckDue(mt.elapsed)
             current_balance == get_asset_balance(okb)
             m == IF due THEN [mt EXCEPT !.elapsed = 0] ELSE mt
         IN  IF due /\ ExternallyClosed(current_balance, mt.quantity)
             THEN /\ mt' = SpotExternalExit(mt)
                  /\ active_trade' = ResetTrade(active_trade)
             ELSE \E lag \in 0..MaxLag :
                  \/ /\ mt' = SpotFetchFailed(m, lag)
                     /\ active_trade' = IF mt'.pc = "done"
                                         THEN StopRunning(active_trade) ELSE active_trade
                  \/ \E current_price \in Prices :
                       /\ mt' = SpotFetched(m, calculate_pnl(mt.entry, current_balance,
                                                             current_price), lag)
                       /\ active_trade' = active_trade
    /\ reply' = None
    /\ UNCHANGED <<active_futures_trade, pc, loc, mf, wallet, calc, sync>>

\* execute_sell_order: nothing is sent below the minimum quantity (one unit);
\* otherwise the order is sent and the exchange accepts or rejects it.
SellSubmitted(quantity) == quantity >= 1

\* A fault variant of SpotAfterSell: a failed sell sends the monitor back
\* into its loop to try again.
SpotAfterSellRetry(m, submitted, success) ==
    IF success
    THEN Exit([m EXCEPT !.closeCalls = @ + 1, !.orders = @ + 1, !.notes = @ + 2],
              IF m.pc = "close_profit" THEN "profit" ELSE "stop")
    ELSE [m EXCEPT !.pc = "run", !.closeCalls = @ + 1,
                   !.orders = @ + (IF submitted THEN 1 ELSE 0), !.notes = @ + 2]

\* After the sell attempt the monitor reports and stops, whatever the result.
SpotAfterSell(m, submitted, success) ==
    Exit([m EXCEPT !.closeCalls = @ + 1,
                   !.orders = @ + (IF submitted THEN 1 ELSE 0),
                   !.notes = @ + 2],
         IF m.pc = "close_profit"
         THEN (IF success THEN "profit" ELSE "profit_close_failed")
         ELSE (IF success THEN "stop" ELSE "stop_close_failed"))

\* The profit and stop branches of monitor_trade: announce, sell the balance,
\* report, reset the slot, break.
monitor_trade_close ==
    /\ mt.pc \in {"close_profit", "close_stop"}
    /\ \E okb \in BOOLEAN, accepted \in BOOLEAN :
         LET final_balance == get_asset_balance(okb)
             submitted == SellSubmitted(final_balance)
             success == submitted /\ accepted
         IN  /\ mt' = SpotAfterSell(mt, submitted, success)
             /\ wallet' = IF success THEN wallet - final_balance ELSE wallet
    /\ active_trade' = ResetTrade(active_trade)
    /\ reply' = None
    /\ UNCHANGED <<active_futures_trade, pc, loc, mf, calc, sync>>

\* Fault variants of SlotBusy: no busy check at all, and a check of the
\* recorded pair instead of the running flag.
NeverBusy(slot) == FALSE

BusyWhenRecorded(slot) == slot.pair # None

\* A fault variant of SlotBusy: one flag for both slots.
BusyWhenEitherRuns(slot) == active_trade.running \/ active_futures_trade.running

\* --------------------------------------------------- the /trade handler
\* if active_trade['running'] (and the same test of the futures slot)
SlotBusy(slot) == slot.running

\* The pairs a command may name: one that exists, one that ends in USDT
\* but is not listed on the exchange, one that is listed but quoted in
\* another currency.
Pairs == {"BTCUSDT", "XYZUSDT", "BTCEUR"}

\* pair.endswith('USDT')
EndsWithUSDT(pair) == pair \in {"BTCUSDT", "XYZUSDT"}

\* binance_client.get_symbol_info(pair) returns something
Listed(pair) == pair \in {"BTCUSDT", "BTCEUR"}

\* A fault variant of validate_trade_inputs: the stop-loss is not compared
\* with the amount.
validate_trade_inputs_unbounded_stop(pair, amount, profit, stop_loss) ==
    (IF ~EndsWithUSDT(pair) THEN {"suffix"} ELSE {})
    \cup (IF ~Listed(pair) THEN {"not_found"} ELSE {})
    \cup (IF amount < 5 THEN {"amount"} ELSE {})
    \cup (IF profit <= 0 THEN {"profit"} ELSE {})
    \cup (IF stop_loss # Nil /\ stop_loss <= 0 THEN {"stop_positive"} ELSE {})

\* validate_trade_inputs: the list of errors, as a set.
validate_trade_inputs(pair, amount, profit, stop_loss) ==
    (IF ~EndsWithUSDT(pair) THEN {"suffix"} ELSE {})
    \cup (IF ~Listed(pair) THEN {"not_found"} ELSE {})
    \cup (IF amount < 5 THEN {"amount"} ELSE {})
    \cup (IF profit <= 0 THEN {"profit"} ELSE {})
    \cup (IF stop_loss # Nil /\ stop_loss <= 0 THEN {"stop_positive"} ELSE {})
    \cup (IF stop_loss # Nil /\ stop_loss >= amount THEN {"stop_amount"} ELSE {})

\* validate_futures_inputs: the list of errors, as a set.
validate_futures_inputs(pair, amount, profit, stop_loss, leverage) ==
    (IF ~EndsWithUSDT(pair) THEN {"suffix"} ELSE {})
    \cup (IF amount < 10 THEN {"amount"} ELSE {})
    \cup (IF profit <= 0 THEN {"profit"} ELSE {})
    \cup (IF stop_loss # Nil /\ stop_loss <= 0 THEN {"stop_positive"} ELSE {})
    \cup (IF leverage < 1 \/ leverage > 20 THEN {"leverage"} ELSE {})
    \cup (IF leverage > 10 THEN {"risky"} ELSE {})

\* What the candles may make of the market, and check_market_conditions:
\* valid only in a trending, volatile market; invalid also when the data
\* are short or the request raises.
MarketOutcomes == {"favorable", "unfavorable", "error"}

check_market_conditions(outcome) == [valid |-> outcome = "favorable"]

\* A fault variant of AnswerBeforeLock: an unfavorable market check ends
\* the command with the warning.
AnswerBeforeLockFiltered(errors, market_check) ==
    IF errors # {} THEN "invalid"
    ELSE IF ~market_check.valid THEN "market_warning" ELSE None

\* The answer with which a handler returns before its lock block, None when
\* it goes on: validation errors end the command; the market check only
\* chooses between a warning and an analysis.
AnswerBeforeLock(errors, market_check) ==
    IF errors # {} THEN "invalid" ELSE None

\* /trade with its arguments parsed, up to the end of its first lock block:
\* rejected by validation, answered busy, or the slot claimed.  (The
\* thresholds of a command that opens a position are drawn again where the
\* handler records them.)
trade_command(t, pair, amount, profit, stop_loss, market_check) ==
    /\ pc[t] = "idle"
    /\ LET errors == validate_trade_inputs(pair, amount, profit, stop_loss)
           answer == AnswerBeforeLock(errors, market_check)
       IN  IF answer # None
           THEN /\ reply' = "spot_" \o answer
                /\ UNCHANGED <<active_trade, pc, mt>>
           ELSE IF SlotBusy(active_trade)
           THEN /\ reply' = "spot_busy"
                /\ UNCHANGED <<active_trade, pc, mt>>
           ELSE /\ active_trade' = [active_trade EXCEPT !.running = TRUE]
                /\ pc' = [pc EXCEPT ![t] = "spot_order"]
                /\ mt' = NoMonitor
                /\ reply' = None
    /\ UNCHANGED <<active_futures_trade, loc, mf, wallet>>

\* The /trade commands of the lifecycle pass validation and get a warning
\* from the market check; rejected commands, which change nothing, are
\* examined one call at a time below.
SpotCommands ==
    {[pair |-> "BTCUSDT", amount |-> 5, profit |-> 1, stop_loss |-> Nil,
      market |-> "unfavorable"]}

start_trade_command(t) ==
    /\ \E c \in SpotCommands :
         trade_command(t, c.pair, c.amount, c.profit, c.stop_loss,
                       check_market_conditions(c.market))
    /\ UNCHANGED <<calc, sync>>

\* execute_buy_order and the failure branch that releases the slot.
spot_buy(t) ==
    /\ pc[t] = "spot_order"
    /\ \/ \E price \in FillPrices, quantity \in FillQuantities :
            /\ loc' = [loc EXCEPT ![t].price = price, ![t].quantity = quantity]
            /\ pc' = [pc EXCEPT ![t] = "spot_record"]
            /\ wallet' = Min(wallet + quantity, MaxQty)
            /\ reply' = None
            /\ UNCHANGED active_trade
       \/ /\ active_trade' = StopRunning(active_trade)
          /\ loc' = [loc EXCEPT ![t] = NoLocals]
          /\ pc' = [pc EXCEPT ![t] = "idle"]
          /\ reply' = "spot_failed"
          /\ UNCHANGED wallet
    /\ UNCHANGED <<active_futures_trade, mt, mf, calc, sync>>

\* The second lock block of /trade: the position recorded in the slot.
RecordedTrade(slot, price, quantity, profit_target, stop_loss) ==
    [slot EXCEPT !.pair = "BTCUSDT", !.buy_price = price, !.quantity = quantity,
                 !.profit_target = profit_target, !.stop_loss = stop_loss,
                 !.asset = "BTC"]

\* monitor_trade begins: it copies the slot into its locals; the first
\* balance check is due at once (last_balance_check = 0).
StartedSpotMonitor(slot) ==
    [NoMonitor EXCEPT !.pc = "run", !.entry = slot.buy_price,
        !.quantity = slot.quantity, !.profit_target = slot.profit_target,
        !.stop_loss = slot.stop_loss, !.elapsed = balance_check_interval]

\* /trade after the fill: record the position, report the open and start the
\* monitor thread.
spot_record(t) ==
    /\ pc[t] = "spot_record"
    /\ \E profit_target \in Usd, stop_loss \in {Nil} \cup Usd :
         active_trade' = RecordedTrade(active_trade, loc[t].price, loc[t].quantity,
                                       profit_target, stop_loss)
    /\ mt' = StartedSpotMonitor(active_trade')
    /\ pc' = [pc EXCEPT ![t] = "idle"]
    /\ loc' = [loc EXCEPT ![t] = NoLocals]
    /\ reply' = "spot_started"
    /\ UNCHANGED <<active_futures_trade, mf, wallet, calc, sync>>

\* --------------------------------------------------- the futures monitor
\* calculate_futures_pnl: the price move times the size of the position the
\* exchange reports, signed by the side recorded at the open.
calculate_futures_pnl(entry_price, side, position_amt, current_price) ==
    IF side = "LONG"
    THEN (current_price - entry_price) * Abs(position_amt)
    ELSE (entry_price - current_price) * Abs(position_amt)

\* position_closed: the exchange reports no position.
PositionClosed(position_amt) == position_amt = 0

\* A fault variant of QuantityDiffers: a difference of exactly the tolerance
\* counts as a change.
QuantityDiffersInclusive(actual_qty, quantity, grain) ==
    1000 * Abs(actual_qty - quantity) >= grain

\* abs(actual_qty - quantity) > 0.001, for quantities counted in 1/grain-ths
\* of a unit.
QuantityDiffers(actual_qty, quantity, grain) ==
    1000 * Abs(actual_qty - quantity) > grain

\* if abs(actual_qty - quantity) > 0.001 (quantities are whole units here)
QuantityChanged(actual_qty, quantity) == QuantityDiffers(actual_qty, quantity, 1)

\* actual_profit / actual_loss: the realized amount in the close report.
actual_profit(entry_price, exit_price, side, quantity) ==
    IF side = "LONG"
    THEN (exit_price - entry_price) * quantity
    ELSE (entry_price - exit_price) * quantity

\* The reset block of the profit and stop exits of monitor_futures_trade.
ResetFuturesTrade(slot) == EmptyFuturesTrade

\* A fault variant of FuturesExternalExit: the monitor tries to close the
\* position it has just found closed.
FuturesExternalExitClosing(m) ==
    Exit([m EXCEPT !.notes = @ + 1, !.closeCalls = @ + 1], "external")

\* The external-closure exit: one message, running = False, no order.
FuturesExternalExit(m) == Exit([m EXCEPT !.notes = @ + 1], "external")

\* A fault variant of FuturesFetchFailed: the monitor stops without a word.
FuturesFetchFailedSilently(m) ==
    LET n == m.consecutive_errors + 1
        c == [m EXCEPT !.consecutive_errors = n, !.streak = @ + 1, !.polled = None]
    IN  IF ErrorsExhausted(n) THEN Exit(c, "errors") ELSE c

\* A failed fetch: count it; at max_errors send one message and stop.
FuturesFetchFailed(m) ==
    LET n == m.consecutive_errors + 1
        c == [m EXCEPT !.consecutive_errors = n, !.streak = @ + 1, !.polled = None]
    IN  IF ErrorsExhausted(n) THEN Exit([c EXCEPT !.notes = @ + 1], "errors") ELSE c

\* A successful fetch of an open position: reconcile the quantity, then
\* compare the P&L with the target, then with the stop-loss.
FuturesFetched(m, current_pnl, actual_qty) ==
    LET c == [m EXCEPT !.consecutive_errors = ErrorsAfterSuccess(@),
                       !.streak = 0, !.polled = Zone(current_pnl, m.profit_target, m.stop_loss),
                       !.quantity = IF QuantityChanged(actual_qty, @)
                                    THEN actual_qty ELSE @]
    IN  IF ProfitHit(current_pnl, m.profit_target) THEN Closing(c, "close_profit")
        ELSE IF StopHit(current_pnl, m.stop_loss) THEN Closing(c, "close_stop")
        ELSE c

\* One cycle of the loop of monitor_futures_trade, up to the decision to close.
monitor_futures_trade_poll ==
    /\ mf.pc = "run"
    /\ active_futures_trade.running
    /\ \/ /\ mf' = FuturesFetchFailed(mf)
          /\ active_futures_trade' =
                 IF mf'.pc = "done" THEN StopRunning(active_futures_trade)
                 ELSE active_futures_trade
       \/ \E position_amt \in (0 - MaxQty)..MaxQty :
            IF PositionClosed(position_amt)
            THEN /\ mf' = FuturesExternalExit(mf)
                 /\ active_futures_trade' = StopRunning(active_futures_trade)
            ELSE \E current_price \in Prices :
                 /\ mf' = FuturesFetched(mf,
                        calculate_futures_pnl(mf.entry, mf.side, position_amt, current_price),
                        Abs(position_amt))
                 /\ active_futures_trade' =
                        IF QuantityChanged(Abs(position_amt), mf.quantity)
                        THEN [active_futures_trade EXCEPT !.quantity = Abs(position_amt)]
                        ELSE active_futures_trade
    /\ reply' = None
    /\ UNCHANGED <<active_trade, pc, loc, mt, wallet, calc, sync>>

\* close_futures_position: no order when the exchange reports no position;
\* otherwise a market order for the whole position, accepted or rejected.
CloseSubmitted(position_amt) == position_amt # 0

\* After the close attempt the monitor reports and stops, whatever the result.
FuturesAfterClose(m, submitted, success) ==
    Exit([m EXCEPT !.closeCalls = @ + 1,
                   !.orders = @ + (IF submitted THEN 1 ELSE 0),
                   !.notes = @ + 2],
         IF m.pc = "close_profit"
         THEN (IF success THEN "profit" ELSE "profit_close_failed")
         ELSE (IF success THEN "stop" ELSE "stop_close_failed"))

\* The profit and stop branches of monitor_futures_trade: announce, close,
\* report, reset the slot, break.
monitor_futures_trade_close ==
    /\ mf.pc \in {"close_profit", "close_stop"}
    /\ \E ok \in BOOLEAN, position_amt \in (0 - MaxQty)..MaxQty, accepted \in BOOLEAN :
         LET submitted == ok /\ CloseSubmitted(position_amt)
         IN  mf' = FuturesAfterClose(mf, submitted, submitted /\ accepted)
    /\ active_futures_trade' = ResetFuturesTrade(active_futures_trade)
    /\ reply' = None
    /\ UNCHANGED <<active_trade, pc, loc, mt, wallet, calc, sync>>

\* ------------------------------------------------- the /futures handler
\* /futures with its arguments parsed, up to the end of its first lock
\* block.
futures_command(t, pair, amount, profit, stop_loss, leverage, market_check) ==
    /\ pc[t] = "idle"
    /\ LET errors == validate_futures_inputs(pair, amount, profit, stop_loss, leverage)
           answer == AnswerBeforeLock(errors, market_check)
       IN  IF answer # None
           THEN /\ reply' = "futures_" \o answer
                /\ UNCHANGED <<active_futures_trade, pc, mf>>
           ELSE IF SlotBusy(active_futures_trade)
           THEN /\ reply' = "futures_busy"
                /\ UNCHANGED <<active_futures_trade, pc, mf>>
           ELSE /\ active_futures_trade' = [active_futures_trade EXCEPT !.running = TRUE]
                /\ pc' = [pc EXCEPT ![t] = "futures_funds"]
                /\ mf' = NoMonitor
                /\ reply' = None
    /\ UNCHANGED <<active_trade, loc, mt, wallet>>

\* The /futures commands of the lifecycle pass validation and get a
\* warning from the market check.
FuturesCommands ==
    {[pair |-> "BTCUSDT", amount |-> 10, profit |-> 1, stop_loss |-> Nil, leverage |-> 2,
      market |-> "unfavorable"]}

start_futures_trade(t) ==
    /\ \E c \in FuturesCommands :
         futures_command(t, c.pair, c.amount, c.profit, c.stop_loss, c.leverage,
                         check_market_conditions(c.market))
    /\ UNCHANGED <<calc, sync>>

\* A fault variant of FuturesGiveUp: the handler reports and returns
\* without releasing the slot.
FuturesGiveUpHolding(t, answer) ==
    /\ UNCHANGED active_futures_trade
    /\ loc' = [loc EXCEPT ![t] = NoLocals]
    /\ pc' = [pc EXCEPT ![t] = "idle"]
    /\ reply' = answer

\* A claimed /futures command gives up: report, running = False, return.
FuturesGiveUp(t, answer) ==
    /\ active_futures_trade' = StopRunning(active_futures_trade)
    /\ loc' = [loc EXCEPT ![t] = NoLocals]
    /\ pc' = [pc EXCEPT ![t] = "idle"]
    /\ reply' = answer

\* The funding step of /futures: enough margin in the futures wallet, or a
\* transfer from spot that succeeds, or a failure that releases the slot.
futures_funds(t) ==
    /\ pc[t] = "futures_funds"
    /\ \/ /\ pc' = [pc EXCEPT ![t] = "futures_order"]
          /\ reply' = None
          /\ UNCHANGED <<active_futures_trade, loc>>
       \/ FuturesGiveUp(t, "futures_no_funds")
    /\ UNCHANGED <<active_trade, mt, mf, wallet, calc, sync>>

\* execute_futures_order and the failure branch that releases the slot.
futures_order(t) ==
    /\ pc[t] = "futures_order"
    /\ \/ \E side \in Sides, price \in FillPrices, quantity \in FillQuantities :
            /\ loc' = [loc EXCEPT ![t].side = side, ![t].price = price,
                                  ![t].quantity = quantity]
            /\ pc' = [pc EXCEPT ![t] = "futures_record"]
            /\ reply' = None
            /\ UNCHANGED active_futures_trade
       \/ FuturesGiveUp(t, "futures_failed")
    /\ UNCHANGED <<active_trade, mt, mf, wallet, calc, sync>>

\* The second lock block of /futures: the position recorded in the slot.
RecordedFuturesTrade(slot, price, quantity, profit_target, stop_loss, side, leverage) ==
    [slot EXCEPT !.pair = "BTCUSDT", !.entry_price = price, !.quantity = quantity,
                 !.profit_target = profit_target, !.stop_loss = stop_loss,
                 !.side = side, !.leverage = leverage]

\* monitor_futures_trade begins: it copies the slot into its locals.
StartedFuturesMonitor(slot) ==
    [NoMonitor EXCEPT !.pc = "run", !.entry = slot.entry_price,
        !.quantity = slot.quantity, !.profit_target = slot.profit_target,
        !.stop_loss = slot.stop_loss, !.side = slot.side]

\* /futures after the fill: record the position, report the open and start
\* the monitor thread.
futures_record(t) ==
    /\ pc[t] = "futures_record"
    /\ \E profit_target \in Usd, stop_loss \in {Nil} \cup Usd, leverage \in Leverages :
         active_futures_trade' =
             RecordedFuturesTrade(active_futures_trade, loc[t].price, loc[t].quantity,
                                  profit_target, stop_loss, loc[t].side, leverage)
    /\ mf' = StartedFuturesMonitor(active_futures_trade')
    /\ pc' = [pc EXCEPT ![t] = "idle"]
    /\ loc' = [loc EXCEPT ![t] = NoLocals]
    /\ reply' = "futures_started"
    /\ UNCHANGED <<active_trade, mt, wallet, calc, sync>>

\* ------------------------------------------------------- the exchange
\* The wallet balance changes outside the bot (a manual sale, a deposit).
WalletChange ==
    /\ \E w \in 0..MaxQty : w # wallet /\ wallet' = w
    /\ reply' = None
    /\ UNCHANGED <<active_trade, active_futures_trade, pc, loc, mt, mf, calc, sync>>

Next ==
    \/ \E t \in Threads : start_trade_command(t)
    \/ \E t \in Threads : spot_buy(t)
    \/ \E t \in Threads : spot_record(t)
    \/ monitor_trade_poll
    \/ monitor_trade_close
    \/ \E t \in Threads : start_futures_trade(t)
    \/ \E t \in Threads : futures_funds(t)
    \/ \E t \in Threads : futures_order(t)
    \/ \E t \in Threads : futures_record(t)
    \/ monitor_futures_trade_poll
    \/ monitor_futures_trade_close
    \/ WalletChange

Spec == Init /\ [][Next]_vars

\* A handler runs on a thread of its own and every call it makes returns, so
\* a handler that has claimed a slot takes its next step.
HandlerProgress(t) ==
    /\ WF_vars(spot_buy(t)) /\ WF_vars(spot_record(t))
    /\ WF_vars(futures_funds(t)) /\ WF_vars(futures_order(t))
    /\ WF_vars(futures_record(t))

SpecFair == Spec /\ \A t \in Threads : HandlerProgress(t)

\* ------------------------------------------------------ order quantities
\* Quantities of the order functions are counted in millionths of a unit.
Ticks == 1000000

\* The LOT_SIZE steps a pair may have: none (0), 0.000001, 0.00001 and 0.1.
StepSizes == {0, 1, 10, 100000}

\* Quantities are Python floats.  The binary value of a decimal operand lies
\* a hair beside it, which decides two things: whether the floor division of
\* a quantity that is a whole number of steps comes out one step short
\* (0.6 // 0.1 is 5.0), and which way round() goes on a half.
Noise == [below : BOOLEAN, half_down : BOOLEAN]

Exact == [below |-> FALSE, half_down |-> FALSE]

\* The number of decimals of a step at or above 0.0001.
RECURSIVE Decimals(_)
Decimals(step_size) ==
    IF step_size >= Ticks THEN 0 ELSE 1 + Decimals(step_size * 10)

\* len(str(step_size).rstrip('0').split('.')[-1]): str() writes a step down
\* to 0.0001 in decimal notation, and the part after the point is counted;
\* below it writes '1e-05', '1e-06', which hold no point, so the five
\* characters of the whole text are counted.
precision(step_size) ==
    IF step_size >= 100 THEN Decimals(step_size) ELSE 5

\* The distance, in ticks, between two numbers of that many decimals.
RECURSIVE Grid(_)
Grid(decimals) ==
    IF decimals >= 6 THEN 1 ELSE 10 * Grid(decimals + 1)

\* round(n / d, decimals), n / d and the result counted in ticks.
round(n, d, decimals, noise) ==
    LET g == Grid(decimals) * d
        r == n % g
        low == (n - r) \div d
    IN  IF 2 * r < g THEN low
        ELSE IF 2 * r > g THEN low + Grid(decimals)
        ELSE IF noise.half_down THEN low ELSE low + Grid(decimals)

\* (n / d) // step_size
floor_div(n, d, step_size, noise) ==
    IF n > 0 /\ n % (d * step_size) = 0 /\ noise.below
    THEN n \div (d * step_size) - 1
    ELSE n \div (d * step_size)

\* The rounding of execute_sell_order and execute_futures_order:
\* quantity = (quantity // step_size) * step_size, then
\* round(quantity, precision), applied to the quantity n / d.
floor_to_step(n, d, step_size, noise) ==
    round(floor_div(n, d, step_size, noise) * step_size, 1, precision(step_size), noise)

\* ---------------------------------------------------- the technical filter
\* Indicator values are fractions n / d in lowest terms, d > 0.
RECURSIVE Gcd(_, _)
Gcd(a, b) == IF b = 0 THEN a ELSE Gcd(b, a % b)

Frac(n, d) ==
    LET g == Gcd(Abs(n), Abs(d))
        sign == IF d < 0 THEN 0 - 1 ELSE 1
    IN  [n |-> sign * (n \div g), d |-> sign * (d \div g)]

Whole(i) == [n |-> i, d |-> 1]

\* None where a number is expected: no fraction has the denominator 0.
NoNumber == [n |-> 0, d |-> 0]

Plus(x, y) == Frac(x.n * y.d + y.n * x.d, x.d * y.d)

Minus(x, y) == Frac(x.n * y.d - y.n * x.d, x.d * y.d)

Times(x, y) == Frac(x.n * y.n, x.d * y.d)

Over(x, y) == Frac(x.n * y.d, x.d * y.n)

Less(x, y) == x.n * y.d < y.n * x.d

Magnitude(x) == [n |-> Abs(x.n), d |-> x.d]

RECURSIVE Sum(_, _, _)
\* sum(values[from:to]), Python's indices
Sum(values, from, to) ==
    IF from >= to THEN Whole(0) ELSE Plus(values[from + 1], Sum(values, from + 1, to))

\* A candle: its high, low and close (k[2], k[3], k[4]).
Candle(high, low, close) == [high |-> high, low |-> low, close |-> close]

RECURSIVE EmaLoop(_, _, _, _)
\* for i in range(period, len(closes)): ema.append(...)
EmaLoop(closes, multiplier, i, ema) ==
    IF i >= Len(closes) THEN ema
    ELSE LET last == ema[Len(ema)]
             ema_value == Plus(Times(Minus(closes[i + 1], last), multiplier), last)
         IN  EmaLoop(closes, multiplier, i + 1, Append(ema, ema_value))

EmaOfShortest(klines, period) ==
    IF Len(klines) = 0 THEN NoNumber ELSE Whole(klines[Len(klines)].close)

calculate_ema(klines, period) ==
    LET closes == [i \in 1..Len(klines) |-> Whole(klines[i].close)]
    IN  IF Len(closes) < period THEN NoNumber
        ELSE LET ema == EmaLoop(closes, Frac(2, period + 1), period,
                                <<Over(Sum(closes, 0, period), Whole(period))>>)
             IN  ema[Len(ema)]

true_range(klines, i) ==
    LET high == klines[i + 1].high
        low == klines[i + 1].low
        prev_close == klines[i].close
    IN  Max3(high - low, Abs(high - prev_close), Abs(low - prev_close))

calculate_atr(klines, period) ==
    IF Len(klines) < period + 1 THEN NoNumber
    ELSE LET true_ranges == [i \in 1..(Len(klines) - 1) |-> Whole(true_range(klines, i))]
         IN  IF Len(true_ranges) < period THEN NoNumber
             ELSE Over(Sum(true_ranges, Len(true_ranges) - period, Len(true_ranges)),
                       Whole(period))

sideways_threshold == Frac(15, 100)

atr_threshold == Frac(10, 100)

SidewaysInclusive(ema_slope) == ~Less(sideways_threshold, Magnitude(ema_slope))

Sideways(ema_slope) == Less(Magnitude(ema_slope), sideways_threshold)

LowVolatility(atr_percent) == Less(atr_percent, atr_threshold)

\* What check_market_conditions returns; reason is the list of the texts
\* joined by ' | ', and an absent key is NoNumber, None or the empty list.
MarketResult(valid, reason, ema_slope, atr_percent, trend) ==
    [valid |-> valid, reason |-> reason, ema_slope |-> ema_slope,
     atr_percent |-> atr_percent, trend |-> trend]

InsufficientData ==
    MarketResult(FALSE, <<"Insufficient data for technical analysis">>, NoNumber, NoNumber, None)

MarketError == MarketResult(FALSE, <<"Error">>, NoNumber, NoNumber, None)

Trend(ema_slope) ==
    IF Less(Whole(0), ema_slope) THEN "BULLISH" ELSE "BEARISH"

\* check_market_conditions once the candles were fetched (fetched = FALSE:
\* the request raised).
market_conditions(fetched, klines) ==
    IF ~fetched THEN MarketError
    ELSE LET ema_9 == calculate_ema(klines, 9)
             ema_20 == calculate_ema(klines, 20)
             atr == calculate_atr(klines, 14)
         IN  IF ema_9 = NoNumber \/ ema_20 = NoNumber \/ atr = NoNumber THEN InsufficientData
             ELSE LET current_price == Whole(klines[Len(klines)].close)
                  IN  IF current_price = Whole(0) THEN MarketError
                      ELSE LET ema_slope == Times(Over(Minus(ema_9, ema_20), current_price),
                                                  Whole(100))
                               atr_percent == Times(Over(atr, current_price), Whole(100))
                               issues ==
                                   (IF Sideways(ema_slope)
                                    THEN <<"Sideways market detected">> ELSE <<>>)
                                   \o (IF LowVolatility(atr_percent)
                                       THEN <<"Low volatility">> ELSE <<>>)
                           IN  IF issues # <<>>
                               THEN MarketResult(FALSE, issues, ema_slope, atr_percent, None)
                               ELSE MarketResult(TRUE, <<>>, ema_slope, atr_percent,
                                                 Trend(ema_slope))

\* ---------------------------------------------------- the order functions
\* What an order function returns, with what it did at the exchange: calls
\* lists the API requests in the order they were made, order is the market
\* order it sent (NoOrder if none), accepted tells that the exchange took
\* the order (the request returned).  Prices and quantities are fractions,
\* quantities in ticks.
NoOrder == [side |-> None, quantity |-> NoNumber]

OrderResult(success, error, price, quantity, calls, order, accepted) ==
    [success |-> success, error |-> error, price |-> price, quantity |-> quantity,
     calls |-> calls, order |-> order, accepted |-> accepted]

\* except Exception as e: return {'success': False, 'error': str(e)}
Raised(calls, order, accepted) ==
    OrderResult(FALSE, "exception", NoNumber, NoNumber, calls, order, accepted)

Filled(price, quantity, calls, order) ==
    OrderResult(TRUE, None, price, quantity, calls, order, TRUE)

\* total_qty and total_cost of the fills of an order response.
FillsQty(fills) ==
    Sum([i \in 1..Len(fills) |-> Whole(fills[i].qty)], 0, Len(fills))

FillsCost(fills) ==
    Sum([i \in 1..Len(fills) |-> Whole(fills[i].price * fills[i].qty)], 0, Len(fills))

\* order_status.get(key, default) turned into a number.
StatusNumber(value, default) == IF value = Nil THEN default ELSE Whole(value)

\* execute_buy_order.  x holds the answers of the exchange: the ticker
\* price, the pair's step_size, the fills of the order response, the order
\* status, and the request that raises, if one does.
execute_buy_order(amount_usd, x) ==
    LET current_price == Whole(x.price)
        quantity == IF x.step_size > 0
                    THEN Whole(round(amount_usd * Ticks, x.price,
                                     precision(x.step_size), x.noise))
                    ELSE Frac(amount_usd * Ticks, x.price)
        order == [side |-> "BUY", quantity |-> quantity]
        ticker == <<"get_symbol_ticker">>
        info == ticker \o <<"get_symbol_info">>
        sent == info \o <<"order_market_buy">>
        asked == sent \o <<"get_order">>
    IN  IF x.raises = "get_symbol_ticker" THEN Raised(ticker, NoOrder, FALSE)
        ELSE IF x.raises = "get_symbol_info" THEN Raised(info, NoOrder, FALSE)
        ELSE IF x.raises = "order_market_buy" THEN Raised(sent, order, FALSE)
        ELSE IF x.fills # <<>>
             THEN Filled(Over(FillsCost(x.fills), FillsQty(x.fills)), FillsQty(x.fills),
                         sent, order)
        ELSE IF x.raises = "get_order" THEN Raised(asked, order, TRUE)
        ELSE LET total_qty == StatusNumber(x.status.executedQty, quantity)
                 avg_price == StatusNumber(x.status.avgPrice, current_price)
             IN  IF avg_price = Whole(0) \/ total_qty = Whole(0)
                 THEN Raised(asked, order, TRUE)
                 ELSE Filled(avg_price, total_qty, asked, order)

\* execute_sell_order of a quantity given in ticks.
execute_sell_order(requested, x) ==
    LET quantity == IF x.step_size > 0
                    THEN floor_to_step(requested, 1, x.step_size, x.noise)
                    ELSE requested
        order == [side |-> "SELL", quantity |-> Whole(quantity)]
        info == <<"get_symbol_info">>
        sent == info \o <<"order_market_sell">>
        asked == sent \o <<"get_order">>
        AfterPrice(avg_price, calls) ==
            IF avg_price # Whole(0) THEN Filled(avg_price, NoNumber, calls, order)
            ELSE IF x.raises = "get_symbol_ticker"
                 THEN Raised(calls \o <<"get_symbol_ticker">>, order, TRUE)
                 ELSE Filled(Whole(x.price), NoNumber, calls \o <<"get_symbol_ticker">>,
                             order)
    IN  IF x.raises = "get_symbol_info" THEN Raised(info, NoOrder, FALSE)
        ELSE IF quantity < x.min_qty
             THEN OrderResult(FALSE, "below_minimum", NoNumber, NoNumber, info,
                              NoOrder, FALSE)
        ELSE IF x.raises = "order_market_sell" THEN Raised(sent, order, FALSE)
        ELSE IF x.fills # <<>>
             THEN AfterPrice(Over(FillsCost(x.fills), FillsQty(x.fills)), sent)
        ELSE IF x.raises = "get_order" THEN Raised(asked, order, TRUE)
        ELSE AfterPrice(StatusNumber(x.status.avgPrice, Whole(0)), asked)

AlwaysBuy(side) == "BUY"

\* side='BUY' if side == 'LONG' else 'SELL'
OrderSide(side) == IF side = "LONG" THEN "BUY" ELSE "SELL"

\* execute_futures_order; fresh_price is the ticker asked after the order.
execute_futures_order(side, amount_usd, leverage, x) ==
    LET floored == IF x.step_size > 0
                   THEN Whole(floor_to_step(amount_usd * leverage * Ticks, x.price,
                                            x.step_size, x.noise))
                   ELSE Frac(amount_usd * leverage * Ticks, x.price)
        quantity == IF Less(floored, Whole(x.min_qty)) THEN Whole(x.min_qty) ELSE floored
        order == [side |-> OrderSide(side), quantity |-> quantity]
        levered == <<"futures_change_leverage">>
        ticker == levered \o <<"futures_symbol_ticker">>
        info == ticker \o <<"futures_exchange_info">>
        sent == info \o <<"futures_create_order">>
        asked == sent \o <<"futures_get_order">>
        again == asked \o <<"futures_symbol_ticker">>
    IN  IF x.raises = "futures_change_leverage" THEN Raised(levered, NoOrder, FALSE)
        ELSE IF x.raises = "futures_symbol_ticker" THEN Raised(ticker, NoOrder, FALSE)
        ELSE IF x.raises = "futures_exchange_info" THEN Raised(info, NoOrder, FALSE)
        ELSE IF ~Less(Whole(0), quantity)
             THEN OrderResult(FALSE, "too_small", NoNumber, NoNumber, info, NoOrder, FALSE)
        ELSE IF x.raises = "futures_create_order" THEN Raised(sent, order, FALSE)
        ELSE IF x.raises = "futures_get_order" THEN Raised(asked, order, TRUE)
        ELSE LET reported == StatusNumber(x.status.executedQty, quantity)
                 actual_qty == IF reported = Whole(0) THEN quantity ELSE reported
                 avg_price == StatusNumber(x.status.avgPrice, Whole(0))
             IN  IF avg_price # Whole(0) THEN Filled(avg_price, actual_qty, asked, order)
                 ELSE IF x.raises = "fresh_ticker" THEN Raised(again, order, TRUE)
                 ELSE Filled(Whole(x.fresh_price), actual_qty, again, order)

AlwaysSell(position_amt) == "SELL"

\* side = 'SELL' if position_amt > 0 else 'BUY'
CloseSide(position_amt) == IF position_amt > 0 THEN "SELL" ELSE "BUY"

\* close_futures_position.  x holds the answers of the exchange: the size
\* of the position (0 also when the pair is not among the positions), the
\* order status, the ticker price, and the request that raises, if one does.
close_futures_position(x) ==
    LET position_amt == x.position_amt
        quantity == Whole(Abs(position_amt))
        order == [side |-> CloseSide(position_amt), quantity |-> quantity]
        read == <<"futures_position_information">>
        sent == read \o <<"futures_create_order">>
        asked == sent \o <<"futures_get_order">>
        again == asked \o <<"futures_symbol_ticker">>
    IN  IF x.raises = "futures_position_information" THEN Raised(read, NoOrder, FALSE)
        ELSE IF position_amt = 0
             THEN OrderResult(FALSE, "No open position", NoNumber, NoNumber, read,
                              NoOrder, FALSE)
        ELSE IF x.raises = "futures_create_order" THEN Raised(sent, order, FALSE)
        ELSE IF x.raises = "futures_get_order" THEN Raised(asked, order, TRUE)
        ELSE LET exit_price == StatusNumber(x.status.avgPrice, Whole(0))
                 executed_qty == StatusNumber(x.status.executedQty, quantity)
             IN  IF exit_price # Whole(0) THEN Filled(exit_price, executed_qty, asked, order)
                 ELSE IF x.raises = "futures_symbol_ticker" \/ x.price = 0
                      THEN Raised(again, order, TRUE)
                      ELSE Filled(Whole(x.price), executed_qty, again, order)

\* ===================================================== one call at a time
\* A second specification examines single calls: calc holds the arguments
\* of one call, drawn in the initial state, and the step that makes the call
\* adds its result.
Call(op, in) == [op |-> op, in |-> in, done |-> FALSE, out |-> None]

Returned(out) == [calc EXCEPT !.done = TRUE, !.out = out]

Pending(op) == calc.op = op /\ ~calc.done

\* The monitor_trade thread of a position bought at buy_price.
SpotMonitorOf(buy_price, quantity, profit_target, stop_loss) ==
    StartedSpotMonitor(RecordedTrade(EmptyTrade, buy_price, quantity,
                                     profit_target, stop_loss))

\* One cycle of monitor_trade in which the balance and the price were
\* fetched: the P&L it computes and what it decides.
SpotPollCalls ==
    {Call("spot_poll", [buy_price |-> b, quantity |-> q, profit_target |-> p,
                        stop_loss |-> s, current_balance |-> w, current_price |-> c]) :
        b \in FillPrices, q \in Quantities, p \in Usd, s \in {Nil} \cup Usd,
        w \in 0..MaxQty, c \in Prices}

spot_poll_call ==
    /\ Pending("spot_poll")
    /\ LET in == calc.in
           current_pnl == calculate_pnl(in.buy_price, in.current_balance, in.current_price)
           m == SpotMonitorOf(in.buy_price, in.quantity, in.profit_target, in.stop_loss)
       IN  calc' = Returned([pnl |-> current_pnl, monitor |-> SpotFetched(m, current_pnl, 0)])
    /\ UNCHANGED <<active_trade, active_futures_trade, pc, loc, mt, mf, wallet, reply, sync>>

\* The monitor_futures_trade thread of a position opened at entry_price.
FuturesMonitorOf(entry_price, quantity, profit_target, stop_loss, side) ==
    StartedFuturesMonitor(RecordedFuturesTrade(EmptyFuturesTrade, entry_price, quantity,
                                               profit_target, stop_loss, side, 1))

\* What the exchange may report as the unrealized profit and as the entry
\* price of a position.
UnrealizedPnls == (0 - MaxUsd - 1)..(MaxUsd + 1)

\* One cycle of monitor_futures_trade in which an open position and the
\* price were fetched: the exchange reports the position's size, unrealized
\* profit and entry price; the cycle computes a P&L and decides.
FuturesPollCalls ==
    {Call("futures_poll", [entry_price |-> e, side |-> d, quantity |-> q,
                           profit_target |-> p, stop_loss |-> s, position_amt |-> a,
                           unrealized_pnl |-> u, reported_entry |-> r,
                           current_price |-> c]) :
        e \in FillPrices, d \in Sides, q \in Quantities, p \in Usd, s \in {Nil} \cup Usd,
        a \in ((0 - MaxQty)..MaxQty) \ {0}, u \in UnrealizedPnls, r \in Prices,
        c \in Prices}

futures_poll_call ==
    /\ Pending("futures_poll")
    /\ LET in == calc.in
           current_pnl == calculate_futures_pnl(in.entry_price, in.side, in.position_amt,
                                                in.current_price)
           m == FuturesMonitorOf(in.entry_price, in.quantity, in.profit_target,
                                 in.stop_loss, in.side)
           after == FuturesFetched(m, current_pnl, Abs(in.position_amt))
       IN  calc' = Returned([pnl |-> current_pnl, monitor |-> after,
                             realized |-> actual_profit(after.entry, in.current_price,
                                                        after.side, after.quantity)])
    /\ UNCHANGED <<active_trade, active_futures_trade, pc, loc, mt, mf, wallet, reply, sync>>

\* Quantities near 10.0 counted in half-thousandths of a unit, to examine
\* the tolerance of the quantity reconciliation.
HalfMillis == 2000

QuantityCheckCalls ==
    {Call("quantity_check", [quantity |-> 10 * HalfMillis, actual_qty |-> 10 * HalfMillis + d]) :
        d \in (0 - 4)..4}

quantity_check_call ==
    /\ Pending("quantity_check")
    /\ calc' = Returned(QuantityDiffers(calc.in.actual_qty, calc.in.quantity, HalfMillis))
    /\ UNCHANGED <<active_trade, active_futures_trade, pc, loc, mt, mf, wallet, reply, sync>>

\* The arguments a command may carry: amounts around the two minimums,
\* profits and stop-losses around zero and around the amounts, leverages
\* around the limits.
Amounts == {4, 5, 9, 10}

Profits == {0, 1}

StopLosses == {Nil, 0, 1, 5, 10}

CommandLeverages == {0, 1, 10, 11, 20, 21}

\* The handler thread that takes the command under examination.
Handler == 1

\* One /trade command, taken by a handler while the spot slot is free.
TradeCalls ==
    {Call("trade", [pair |-> x, amount |-> a, profit |-> p, stop_loss |-> s, market |-> k]) :
        x \in Pairs, a \in Amounts, p \in Profits, s \in StopLosses, k \in MarketOutcomes}

trade_call ==
    /\ Pending("trade")
    /\ trade_command(Handler, calc.in.pair, calc.in.amount, calc.in.profit,
                     calc.in.stop_loss, check_market_conditions(calc.in.market))
    /\ calc' = Returned(None)
    /\ UNCHANGED sync

\* One /futures command, taken by a handler while the futures slot is free.
FuturesCalls ==
    {Call("futures", [pair |-> x, amount |-> a, profit |-> p, stop_loss |-> s,
                      leverage |-> l, market |-> k]) :
        x \in Pairs, a \in Amounts, p \in Profits, s \in StopLosses,
        l \in CommandLeverages, k \in MarketOutcomes}

futures_call ==
    /\ Pending("futures")
    /\ futures_command(Handler, calc.in.pair, calc.in.amount, calc.in.profit,
                       calc.in.stop_loss, calc.in.leverage,
                       check_market_conditions(calc.in.market))
    /\ calc' = Returned(None)
    /\ UNCHANGED sync

\* Candle sequences: every candle closes at base except the last, which
\* closes at base + delta; each candle's low is its close and its high lies
\* spread above it.
Klines(length, base, delta, spread) ==
    [i \in 1..length |->
        LET close == IF i = length THEN base + delta ELSE base
        IN  Candle(close + spread, close, close)]

Lengths == {0, 1, 8, 9, 14, 15, 19, 20, 21}

LastPrice == 14000

Deltas == {0 - 280, 0 - 140, 0 - 139, 0, 139, 140, 280}

Spreads == {0, 4, 20}

\* One call of check_market_conditions: the candle request raises, or it
\* returns a sequence ending at LastPrice, or one of worthless candles.
MarketCheckCalls ==
    {Call("market_check", [fetched |-> FALSE, klines |-> <<>>])}
    \cup {Call("market_check", [fetched |-> TRUE, klines |-> Klines(n, 0, 0, 0)]) :
            n \in {20}}
    \cup {Call("market_check", [fetched |-> TRUE,
                                klines |-> Klines(n, LastPrice - d, d, s)]) :
            n \in Lengths, d \in Deltas, s \in Spreads}

market_check_call ==
    /\ Pending("market_check")
    /\ calc' = Returned(market_conditions(calc.in.fetched, calc.in.klines))
    /\ UNCHANGED <<active_trade, active_futures_trade, pc, loc, mt, mf, wallet, reply, sync>>

\* Quantities to round: zero, a few millionths, and tenths.
RoundedQuantities == {0, 6, 14, 15, 16, 20, 300000, 600000, 650000}

\* The rounding of execute_sell_order and execute_futures_order applied to
\* a quantity, and applied again to its result.
FloorToStepCalls ==
    {Call("floor_to_step", [quantity |-> q, step_size |-> s, noise |-> e, again |-> f]) :
        q \in RoundedQuantities, s \in StepSizes \ {0}, e \in Noise, f \in Noise}

floor_to_step_call ==
    /\ Pending("floor_to_step")
    /\ LET in == calc.in
           once == floor_to_step(in.quantity, 1, in.step_size, in.noise)
       IN  calc' = Returned([once |-> once,
                             twice |-> floor_to_step(once, 1, in.step_size, in.again)])
    /\ UNCHANGED <<active_trade, active_futures_trade, pc, loc, mt, mf, wallet, reply, sync>>

\* The answers of the exchange to an order function: fills of the order
\* response (none, one, or two that average 3), the order status with each
\* key absent, zero or set, and the request that raises.
Fills ==
    {<<>>,
     <<[price |-> 3, qty |-> 2 * Ticks]>>,
     <<[price |-> 2, qty |-> Ticks], [price |-> 4, qty |-> Ticks]>>}

Statuses == [avgPrice : {Nil, 0, 3}, executedQty : {Nil, 0, 3 * Ticks}]

MinQtys == {1, 10, 500000}

\* The step and minimum of a pair: both 0.0 without a LOT_SIZE filter.
LotSizes ==
    {[step_size |-> 0, min_qty |-> 0]}
    \cup [step_size : StepSizes \ {0}, min_qty : MinQtys]

BuyRaises ==
    {None, "get_symbol_ticker", "get_symbol_info", "order_market_buy", "get_order"}

SellRaises ==
    {None, "get_symbol_info", "order_market_sell", "get_order", "get_symbol_ticker"}

FuturesRaises ==
    {None, "futures_change_leverage", "futures_symbol_ticker", "futures_exchange_info",
     "futures_create_order", "futures_get_order", "fresh_ticker"}

\* One call of execute_buy_order.
BuyOrderCalls ==
    {Call("buy_order",
          [amount_usd |-> a,
           exchange |-> [price |-> 3, step_size |-> s, fills |-> f, status |-> u,
                         raises |-> r, noise |-> e]]) :
        a \in {10, 11}, s \in StepSizes, f \in Fills, u \in Statuses, r \in BuyRaises,
        e \in Noise}

buy_order_call ==
    /\ Pending("buy_order")
    /\ calc' = Returned(execute_buy_order(calc.in.amount_usd, calc.in.exchange))
    /\ UNCHANGED <<active_trade, active_futures_trade, pc, loc, mt, mf, wallet, reply, sync>>

\* One call of execute_sell_order.
SellOrderCalls ==
    {Call("sell_order",
          [quantity |-> q,
           exchange |-> [price |-> 3, step_size |-> l.step_size, min_qty |-> l.min_qty,
                         fills |-> f,
                         status |-> [avgPrice |-> p, executedQty |-> Nil],
                         raises |-> r, noise |-> e]]) :
        q \in RoundedQuantities, l \in LotSizes, f \in {<<>>, <<[price |-> 3, qty |-> Ticks]>>},
        p \in {Nil, 0, 3}, r \in SellRaises, e \in Noise}

sell_order_call ==
    /\ Pending("sell_order")
    /\ calc' = Returned(execute_sell_order(calc.in.quantity, calc.in.exchange))
    /\ UNCHANGED <<active_trade, active_futures_trade, pc, loc, mt, mf, wallet, reply, sync>>

\* One call of execute_futures_order: 10 dollars at leverage 1 or 3, at a
\* price of 3, 100 or 1000.
FuturesOrderCalls ==
    {Call("futures_order",
          [side |-> d, amount_usd |-> 10, leverage |-> v,
           exchange |-> [price |-> c, fresh_price |-> c + 1, step_size |-> l.step_size,
                         min_qty |-> l.min_qty, status |-> u, raises |-> r,
                         noise |-> e]]) :
        d \in Sides, v \in {1, 3}, c \in {3, 100, 1000}, l \in LotSizes, u \in Statuses,
        r \in FuturesRaises, e \in Noise}

futures_order_call ==
    /\ Pending("futures_order")
    /\ calc' = Returned(execute_futures_order(calc.in.side, calc.in.amount_usd,
                                              calc.in.leverage, calc.in.exchange))
    /\ UNCHANGED <<active_trade, active_futures_trade, pc, loc, mt, mf, wallet, reply, sync>>

\* One /trade command from the claim of the free slot to its return, with
\* the answers the exchange gives to execute_buy_order: on a failure the
\* handler reports it and releases the slot, otherwise it records the
\* position and starts monitor_trade.
SpotOpenCalls ==
    {Call("spot_open",
          [amount_usd |-> 10, profit |-> 1, stop_loss |-> Nil,
           exchange |-> [price |-> 3, step_size |-> 100000, fills |-> f, status |-> u,
                         raises |-> r, noise |-> Exact]]) :
        f \in Fills, u \in Statuses, r \in BuyRaises}

spot_open_call ==
    /\ Pending("spot_open")
    /\ LET buy_result == execute_buy_order(calc.in.amount_usd, calc.in.exchange)
           claimed == [active_trade EXCEPT !.running = TRUE]
       IN  /\ calc' = Returned(buy_result)
           /\ IF buy_result.success
              THEN /\ active_trade' = RecordedTrade(claimed, buy_result.price,
                                                    buy_result.quantity, calc.in.profit,
                                                    calc.in.stop_loss)
                   /\ mt' = StartedSpotMonitor(active_trade')
                   /\ reply' = "spot_started"
              ELSE /\ active_trade' = StopRunning(claimed)
                   /\ mt' = mt
                   /\ reply' = "spot_failed"
    /\ UNCHANGED <<active_futures_trade, pc, loc, mf, wallet, sync>>

\* One funded /futures command from the claim of the free slot to its
\* return, with the answers the exchange gives to execute_futures_order.
FuturesOpenCalls ==
    {Call("futures_open",
          [side |-> d, amount_usd |-> 10, leverage |-> 3, profit |-> 1, stop_loss |-> Nil,
           exchange |-> [price |-> 100, fresh_price |-> 101, step_size |-> 100000,
                         min_qty |-> 100000, status |-> u, raises |-> r,
                         noise |-> Exact]]) :
        d \in Sides, u \in Statuses, r \in FuturesRaises}

futures_open_call ==
    /\ Pending("futures_open")
    /\ LET order_result == execute_futures_order(calc.in.side, calc.in.amount_usd,
                                                 calc.in.leverage, calc.in.exchange)
           claimed == [active_futures_trade EXCEPT !.running = TRUE]
       IN  /\ calc' = Returned(order_result)
           /\ IF order_result.success
              THEN /\ active_futures_trade' =
                          RecordedFuturesTrade(claimed, order_result.price,
                                               order_result.quantity, calc.in.profit,
                                               calc.in.stop_loss, calc.in.side,
                                               calc.in.leverage)
                   /\ mf' = StartedFuturesMonitor(active_futures_trade')
                   /\ reply' = "futures_started"
              ELSE /\ active_futures_trade' = StopRunning(claimed)
                   /\ mf' = mf
                   /\ reply' = "futures_failed"
    /\ UNCHANGED <<active_trade, pc, loc, mt, wallet, sync>>

\* Position sizes the exchange may report, in ticks: short, none, long.
PositionAmts == {0 - 3 * Ticks, 0 - 1, 0, 1, 3 * Ticks}

CloseRaises ==
    {None, "futures_position_information", "futures_create_order", "futures_get_order",
     "futures_symbol_ticker"}

\* One call of close_futures_position.
CloseFuturesCalls ==
    {Call("close_futures",
          [exchange |-> [position_amt |-> a, status |-> u, price |-> c, raises |-> r]]) :
        a \in PositionAmts, u \in Statuses, c \in {0, 3}, r \in CloseRaises}

close_futures_call ==
    /\ Pending("close_futures")
    /\ calc' = Returned(close_futures_position(calc.in.exchange))
    /\ UNCHANGED <<active_trade, active_futures_trade, pc, loc, mt, mf, wallet, reply, sync>>

InitCalc ==
    /\ active_trade = EmptyTrade
    /\ active_futures_trade = EmptyFuturesTrade
    /\ pc = [t \in Threads |-> "idle"]
    /\ loc = [t \in Threads |-> NoLocals]
    /\ mt = NoMonitor
    /\ mf = NoMonitor
    /\ wallet = 0
    /\ reply = None
    /\ sync = NoSync
    /\ \/ calc \in SpotPollCalls
       \/ calc \in FuturesPollCalls
       \/ calc \in QuantityCheckCalls
       \/ calc \in TradeCalls
       \/ calc \in FuturesCalls
       \/ calc \in FloorToStepCalls
       \/ calc \in MarketCheckCalls
       \/ calc \in BuyOrderCalls
       \/ calc \in SellOrderCalls
       \/ calc \in FuturesOrderCalls
       \/ calc \in SpotOpenCalls
       \/ calc \in FuturesOpenCalls
       \/ calc \in CloseFuturesCalls

NextCalc ==
    \/ spot_poll_call
    \/ futures_poll_call
    \/ quantity_check_call
    \/ trade_call
    \/ futures_call
    \/ floor_to_step_call
    \/ market_check_call
    \/ buy_order_call
    \/ sell_order_call
    \/ futures_order_call
    \/ spot_open_call
    \/ futures_open_call
    \/ close_futures_call

SpecCalc == InitCalc /\ [][NextCalc]_vars

\* ================================================== the threads and locks
\* SpecLock follows every thread of the program statement by statement
\* through its lock blocks: the command handlers of the worker pool, the two
\* monitor threads, trade_lock and futures_lock.  A code point is the name
\* of a function and the line of the statement the thread executes next.
NoThread == 0
MonitorTradeThread == NumThreads + 1
MonitorFuturesThread == NumThreads + 2
LockThreads == Threads \cup {MonitorTradeThread, MonitorFuturesThread}
Locks == {"trade_lock", "futures_lock"}

\* The statements inside a `with trade_lock:` block.
TradeLockPoints ==
    {"trade:1140", "trade:1153", "trade:1159", "status:984",
     "monitor_trade:631", "monitor_trade:650", "monitor_trade:702",
     "monitor_trade:751", "monitor_trade:769"}

\* The statements inside a `with futures_lock:` block.
FuturesLockPoints ==
    {"futures:1248", "futures:1267", "futures:1278", "futures:1290", "futures:1294",
     "fstatus:1039",
     "monitor_futures_trade:799", "monitor_futures_trade:811",
     "monitor_futures_trade:824", "monitor_futures_trade:863",
     "monitor_futures_trade:908", "monitor_futures_trade:928"}

\* A fault variant of LocksAt: the monitor corrects the recorded quantity
\* outside every lock block.
LocksAtBareReconcile(point) ==
    IF point \in TradeLockPoints THEN <<"trade_lock">>
    ELSE IF point \in FuturesLockPoints \ {"monitor_futures_trade:824"}
    THEN <<"futures_lock">> ELSE <<>>

\* A fault variant of LocksAt: each status handler also takes the lock of
\* the other slot inside its own lock block.
LocksAtNested(point) ==
    IF point = "status:984" THEN <<"trade_lock", "futures_lock">>
    ELSE IF point = "fstatus:1039" THEN <<"futures_lock", "trade_lock">>
    ELSE IF point \in TradeLockPoints THEN <<"trade_lock">>
    ELSE IF point \in FuturesLockPoints THEN <<"futures_lock">> ELSE <<>>

\* The locks of the with-blocks that enclose a statement, outermost first.
LocksAt(point) ==
    IF point \in TradeLockPoints THEN <<"trade_lock">>
    ELSE IF point \in FuturesLockPoints THEN <<"futures_lock">> ELSE <<>>

LockSet(point) == {LocksAt(point)[i] : i \in 1..Len(LocksAt(point))}

\* Every lock free, every handler idle, no monitor started.
InitSync ==
    [held |-> [l \in Locks |-> NoThread],
     at |-> [t \in LockThreads |-> IF t \in Threads THEN "idle" ELSE "off"]]

\* The thread has entered every with-block around its next statement.
Holding(t) == \A l \in LockSet(sync.at[t]) : sync.held[l] = t

\* `with lock:` entered: the thread takes the outermost lock it still needs,
\* once that lock is free.
acquire(t) ==
    /\ \E i \in 1..Len(LocksAt(sync.at[t])) :
         LET l == LocksAt(sync.at[t])[i]
         IN  /\ \A j \in 1..(i - 1) : sync.held[LocksAt(sync.at[t])[j]] = t
             /\ sync.held[l] = NoThread
             /\ sync' = [sync EXCEPT !.held[l] = t]
    /\ UNCHANGED <<active_trade, active_futures_trade, pc, loc, mt, mf, wallet, reply, calc>>

\* The thread goes on to the statement at `point`; leaving a with-block, by
\* its end or by a return or break inside it, releases the block's lock.
Moved(s, t, point) ==
    [s EXCEPT !.at[t] = point,
              !.held = [l \in Locks |->
                          IF s.held[l] = t /\ l \notin LockSet(point)
                          THEN NoThread ELSE s.held[l]]]

\* threading.Thread(target=...).start()
Started(s, monitor, point) == [s EXCEPT !.at[monitor] = point]

\* A worker thread of the bot takes the next command from the chat.
take_command(t) ==
    /\ sync.at[t] = "idle"
    /\ \E point \in {"trade:1140", "futures:1248", "status:984", "fstatus:1039"} :
         sync' = Moved(sync, t, point)
    /\ UNCHANGED <<active_trade, active_futures_trade, pc, loc, mt, mf, wallet, reply, calc>>

\* start_trade_command from its first lock block on.  The fill is written
\* into the slot where the handler records it.
trade_step(t) ==
    /\ Holding(t)
    /\ \/ /\ sync.at[t] = "trade:1140"
          /\ IF SlotBusy(active_trade)
             THEN /\ sync' = Moved(sync, t, "idle")
                  /\ UNCHANGED active_trade
             ELSE /\ active_trade' = [active_trade EXCEPT !.running = TRUE]
                  /\ sync' = Moved(sync, t, "trade:1146")
       \/ /\ sync.at[t] = "trade:1146"
          /\ \E success \in BOOLEAN :
               sync' = Moved(sync, t, IF success THEN "trade:1159" ELSE "trade:1153")
          /\ UNCHANGED active_trade
       \/ /\ sync.at[t] = "trade:1153"
          /\ active_trade' = StopRunning(active_trade)
          /\ sync' = Moved(sync, t, "idle")
       \/ /\ sync.at[t] = "trade:1159"
          /\ \E price \in FillPrices, quantity \in FillQuantities :
               active_trade' = RecordedTrade(active_trade, price, quantity, 1, Nil)
          /\ sync' = Moved(sync, t, "trade:1180")
       \/ /\ sync.at[t] = "trade:1180"
          /\ sync' = Started(Moved(sync, t, "idle"), MonitorTradeThread, "monitor_trade:611")
          /\ UNCHANGED active_trade
    /\ UNCHANGED <<active_futures_trade, pc, loc, mt, mf, wallet, reply, calc>>

\* start_futures_trade from its first lock block on.
futures_step(t) ==
    /\ Holding(t)
    /\ \/ /\ sync.at[t] = "futures:1248"
          /\ IF SlotBusy(active_futures_trade)
             THEN /\ sync' = Moved(sync, t, "idle")
                  /\ UNCHANGED active_futures_trade
             ELSE /\ active_futures_trade' = [active_futures_trade EXCEPT !.running = TRUE]
                  /\ sync' = Moved(sync, t, "futures:1255")
       \/ /\ sync.at[t] = "futures:1255"
          /\ \E point \in {"futures:1267", "futures:1278", "futures:1285"} :
               sync' = Moved(sync, t, point)
          /\ UNCHANGED active_futures_trade
       \/ /\ sync.at[t] = "futures:1285"
          /\ \E success \in BOOLEAN :
               sync' = Moved(sync, t, IF success THEN "futures:1294" ELSE "futures:1290")
          /\ UNCHANGED active_futures_trade
       \/ /\ sync.at[t] \in {"futures:1267", "futures:1278", "futures:1290"}
          /\ active_futures_trade' = StopRunning(active_futures_trade)
          /\ sync' = Moved(sync, t, "idle")
       \/ /\ sync.at[t] = "futures:1294"
          /\ \E price \in FillPrices, quantity \in FillQuantities, side \in Sides,
                leverage \in Leverages :
               active_futures_trade' =
                   RecordedFuturesTrade(active_futures_trade, price, quantity, 1, Nil,
                                        side, leverage)
          /\ sync' = Moved(sync, t, "futures:1318")
       \/ /\ sync.at[t] = "futures:1318"
          /\ sync' = Started(Moved(sync, t, "idle"), MonitorFuturesThread,
                             "monitor_futures_trade:789")
          /\ UNCHANGED active_futures_trade
    /\ UNCHANGED <<active_trade, pc, loc, mt, mf, wallet, reply, calc>>

\* check_status: the whole handler is one lock block; it reads the slot,
\* queries the exchange and answers, and writes nothing.
status_step(t) ==
    /\ Holding(t)
    /\ sync.at[t] = "status:984"
    /\ sync' = Moved(sync, t, "idle")
    /\ UNCHANGED <<active_trade, active_futures_trade, pc, loc, mt, mf, wallet, reply, calc>>

\* check_futures_status, likewise under futures_lock.
fstatus_step(t) ==
    /\ Holding(t)
    /\ sync.at[t] = "fstatus:1039"
    /\ sync' = Moved(sync, t, "idle")
    /\ UNCHANGED <<active_trade, active_futures_trade, pc, loc, mt, mf, wallet, reply, calc>>

\* monitor_trade: the loop test reads running without a lock; a cycle sleeps
\* and comes round again or leaves through one of the exits, each of which
\* writes the slot in a lock block and breaks.
monitor_trade_step ==
    /\ Holding(MonitorTradeThread)
    /\ \/ /\ sync.at[MonitorTradeThread] = "monitor_trade:611"
          /\ IF ~active_trade.running
             THEN sync' = Moved(sync, MonitorTradeThread, "done")
             ELSE \E point \in {"monitor_trade:611", "monitor_trade:631", "monitor_trade:650",
                                "monitor_trade:702", "monitor_trade:751",
                                "monitor_trade:769"} :
                    sync' = Moved(sync, MonitorTradeThread, point)
          /\ UNCHANGED active_trade
       \/ /\ sync.at[MonitorTradeThread] \in
                {"monitor_trade:631", "monitor_trade:702", "monitor_trade:751"}
          /\ active_trade' = ResetTrade(active_trade)
          /\ sync' = Moved(sync, MonitorTradeThread, "done")
       \/ /\ sync.at[MonitorTradeThread] \in {"monitor_trade:650", "monitor_trade:769"}
          /\ active_trade' = StopRunning(active_trade)
          /\ sync' = Moved(sync, MonitorTradeThread, "done")
    /\ UNCHANGED <<active_futures_trade, pc, loc, mt, mf, wallet, reply, calc>>

\* monitor_futures_trade: as monitor_trade, and a cycle that finds another
\* position size writes it into the slot and goes on.
monitor_futures_trade_step ==
    /\ Holding(MonitorFuturesThread)
    /\ \/ /\ sync.at[MonitorFuturesThread] = "monitor_futures_trade:789"
          /\ IF ~active_futures_trade.running
             THEN sync' = Moved(sync, MonitorFuturesThread, "done")
             ELSE \E point \in {"monitor_futures_trade:789", "monitor_futures_trade:799",
                                "monitor_futures_trade:811", "monitor_futures_trade:824",
                                "monitor_futures_trade:830", "monitor_futures_trade:928"} :
                    sync' = Moved(sync, MonitorFuturesThread, point)
          /\ UNCHANGED active_futures_trade
       \/ /\ sync.at[MonitorFuturesThread] = "monitor_futures_trade:824"
          /\ \E actual_qty \in Quantities :
               /\ QuantityChanged(actual_qty, active_futures_trade.quantity)
               /\ active_futures_trade' = [active_futures_trade EXCEPT !.quantity = actual_qty]
          /\ sync' = Moved(sync, MonitorFuturesThread, "monitor_futures_trade:830")
       \/ /\ sync.at[MonitorFuturesThread] = "monitor_futures_trade:830"
          /\ \E point \in {"monitor_futures_trade:789", "monitor_futures_trade:863",
                           "monitor_futures_trade:908", "monitor_futures_trade:928"} :
               sync' = Moved(sync, MonitorFuturesThread, point)
          /\ UNCHANGED active_futures_trade
       \/ /\ sync.at[MonitorFuturesThread] \in
                {"monitor_futures_trade:863", "monitor_futures_trade:908"}
          /\ active_futures_trade' = ResetFuturesTrade(active_futures_trade)
          /\ sync' = Moved(sync, MonitorFuturesThread, "done")
       \/ /\ sync.at[MonitorFuturesThread] \in
                {"monitor_futures_trade:799", "monitor_futures_trade:811",
                 "monitor_futures_trade:928"}
          /\ active_futures_trade' = StopRunning(active_futures_trade)
          /\ sync' = Moved(sync, MonitorFuturesThread, "done")
    /\ UNCHANGED <<active_trade, pc, loc, mt, mf, wallet, reply, calc>>

InitLock ==
    /\ active_trade = EmptyTrade
    /\ active_futures_trade = EmptyFuturesTrade
    /\ pc = [t \in Threads |-> "idle"]
    /\ loc = [t \in Threads |-> NoLocals]
    /\ mt = NoMonitor
    /\ mf = NoMonitor
    /\ wallet = 0
    /\ reply = None
    /\ calc = NoCalc
    /\ sync = InitSync

NextLock ==
    \/ \E t \in Threads : take_command(t)
    \/ \E t \in LockThreads : acquire(t)
    \/ \E t \in Threads : trade_step(t)
    \/ \E t \in Threads : futures_step(t)
    \/ \E t \in Threads : status_step(t)
    \/ \E t \in Threads : fstatus_step(t)
    \/ monitor_trade_step
    \/ monitor_futures_trade_step

SpecLock == InitLock /\ [][NextLock]_vars

\* ============================================================ properties
\* A handler that has claimed a slot and has not yet released it or handed
\* it to a monitor.
SpotClaimed(t) == pc[t] \in {"spot_order", "spot_record"}

FuturesClaimed(t) == pc[t] \in {"futures_funds", "futures_order", "futures_record"}

\* A monitor thread that is still executing.
MonitorAlive(m) == m.pc \in {"run", "close_profit", "close_stop"}

\* The handlers and the monitor that hold a slot.
SpotOwners ==
    Cardinality({t \in Threads : SpotClaimed(t)}) + (IF MonitorAlive(mt) THEN 1 ELSE 0)

FuturesOwners ==
    Cardinality({t \in Threads : FuturesClaimed(t)}) + (IF MonitorAlive(mf) THEN 1 ELSE 0)

\* C1: of the commands that race for a free slot at most one flips running
\* from false to true and goes on to open a position, so at every moment at
\* most one command or monitor holds the spot slot and at most one holds the
\* futures slot, and a slot is running exactly when somebody holds it.
C1_OnePositionPerSlot ==
    /\ SpotOwners <= 1
    /\ FuturesOwners <= 1
    /\ active_trade.running <=> SpotOwners = 1
    /\ active_futures_trade.running <=> FuturesOwners = 1

\* Two /trade commands raced: one is opening its position, the other got the
\* busy answer, and a futures position runs at the same time.
C1_Witness ==
    /\ \E t \in Threads : SpotClaimed(t)
    /\ reply = "spot_busy"
    /\ MonitorAlive(mf)

\* C2: a command that finds its slot running is answered with the busy
\* message and changes nothing: no slot field, no handler, no monitor, no
\* order; and no command claims a slot that is running.
C2_BusyRejection ==
    [][/\ reply' = "spot_busy" =>
            /\ active_trade.running
            /\ UNCHANGED <<active_trade, active_futures_trade, pc, loc, mt, mf, wallet>>
       /\ reply' = "futures_busy" =>
            /\ active_futures_trade.running
            /\ UNCHANGED <<active_trade, active_futures_trade, pc, loc, mt, mf, wallet>>
       /\ active_trade.running =>
            \A t \in Threads : pc[t] = "idle" => pc'[t] # "spot_order"
       /\ active_futures_trade.running =>
            \A t \in Threads : pc[t] = "idle" => pc'[t] # "futures_funds"]_vars

\* A /trade command was rejected as busy while the spot monitor was polling.
C2_Witness == reply = "spot_busy" /\ mt.pc = "run" /\ active_trade.running

\* The zones of a polled P&L that reach the profit target, and those that
\* reach a stop-loss that is set.
TargetZones == {"at_target", "above_target"}

StopZones == {"at_stop", "below_stop"}

ProfitReasons == {"profit", "profit_close_failed"}

StopReasons == {"stop", "stop_close_failed"}

\* What C3 asks of one monitor.
ProfitClose(m) ==
    /\ m.pc = "run" => m.polled \notin TargetZones
    /\ m.pc = "close_profit" => m.polled \in TargetZones /\ m.closeCalls = 0
    /\ m.reason \in ProfitReasons =>
          /\ m.pc = "done"
          /\ m.polled \in TargetZones
          /\ m.closeCalls = 1
          /\ m.notes >= 1

StopClose(m) ==
    /\ m.pc = "run" => m.polled \notin StopZones
    /\ m.pc = "close_stop" =>
          m.stop_loss # Nil /\ m.polled \in StopZones /\ m.closeCalls = 0
    /\ m.reason \in StopReasons =>
          m.pc = "done" /\ m.polled \in StopZones /\ m.closeCalls = 1

\* C4: the monitor closes for loss exactly on a poll whose P&L is at or below
\* minus the stop-loss with a stop-loss set: such a poll never leaves it in
\* its loop, and the stop branch is entered by no other poll, in particular
\* never when the stop-loss is unset.
C4_StopLossOnlyWhenSet == StopClose(mt) /\ StopClose(mf)

\* The spot monitor closed for loss on a P&L equal to minus the stop-loss.
C4_Witness == mt.pc = "done" /\ mt.reason = "stop" /\ mt.polled = "at_stop"

\* C5 (as the specification states it): whenever a slot is not running, all
\* its other fields have their default values.
C5_AllFieldsReset ==
    /\ ~active_trade.running => active_trade = EmptyTrade
    /\ ~active_futures_trade.running => active_futures_trade = EmptyFuturesTrade

\* What C6 asks of one monitor and its slot.
ErrorExit(m, slot) ==
    /\ MonitorAlive(m) => m.streak < max_errors
    /\ m.pc = "done" => (m.reason = "errors" <=> m.streak = max_errors)
    /\ m.reason = "errors" =>
          /\ m.pc = "done"
          /\ ~slot.running
          /\ m.closeCalls = 0 /\ m.orders = 0
          /\ m.notes = 1

\* C6: the monitor ends for errors exactly when max_errors (5) polls in a
\* row have failed, a successful poll starting the count again; it then
\* sends one message, sets running to false and calls no close operation.
C6_ErrorExhaustion ==
    ErrorExit(mt, active_trade) /\ ErrorExit(mf, active_futures_trade)

\* The futures monitor gave up after five failed polls in a row.
C6_Witness == mf.reason = "errors" /\ mf.streak = max_errors

\* What C7 asks of one monitor and its slot.
ExternalExit(m, slot) ==
    m.reason = "external" =>
        /\ m.pc = "done"
        /\ ~slot.running
        /\ m.closeCalls = 0 /\ m.orders = 0
        /\ m.notes = 1

\* C7: a monitor that finds its position closed outside the bot sends one
\* message and ends with running false, without calling a close operation.
C7_ExternalClosure ==
    ExternalExit(mt, active_trade) /\ ExternalExit(mf, active_futures_trade)

\* The futures monitor found its position closed on the exchange.
C7_Witness == mf.reason = "external" /\ ~active_futures_trade.running

\* C8 (as the specification states it): a spot monitor that ends while the
\* wallet is empty ends as externally closed.
C8_EmptyWalletEndsExternal ==
    [][wallet = 0 /\ mt.pc = "run" /\ mt'.pc = "done" => mt'.reason = "external"]_vars

\* C8: a cycle of the spot monitor that runs while the wallet is empty,
\* whatever the price, enters no sell branch and calls no close operation;
\* it ends the monitor as externally closed when the balance check is due,
\* and otherwise leaves it polling or ends it by error exhaustion.
C8_EmptyWalletNoSell ==
    [][wallet = 0 /\ mt.pc = "run" /\ mt' # mt =>
          /\ mt'.pc \in {"run", "done"}
          /\ mt'.closeCalls = 0 /\ mt'.orders = 0
          /\ mt'.pc = "done" => mt'.reason \in {"external", "errors"}
          /\ BalanceCheckDue(mt.elapsed) => mt'.reason = "external"]_vars

\* The spot monitor ended as externally closed on an empty wallet.
C8_Witness == mt.reason = "external" /\ wallet = 0 /\ active_trade = EmptyTrade

\* What C9 asks of one monitor and its slot.
OneClose(m, slot) ==
    /\ m.closeCalls <= 1 /\ m.orders <= m.closeCalls
    /\ m.closeCalls = 1 => m.pc = "done" /\ ~slot.running
    /\ m.reason \in {"profit_close_failed", "stop_close_failed"} =>
          m.closeCalls = 1 /\ m.notes = 2

\* C9: a monitor calls the close operation at most once in its life; after
\* the call, failed or not, it has reported and ended with running false,
\* so a failed close is never tried again.
C9_AtMostOneClose ==
    OneClose(mt, active_trade) /\ OneClose(mf, active_futures_trade)

\* The spot monitor's sell order was sent and rejected.
C9_Witness == mt.reason = "profit_close_failed" /\ mt.orders = 1

\* C10 (as the specification states it): a monitor that has ended has sent
\* exactly one message.
C10_ExactlyOneNotification ==
    /\ mt.pc = "done" => mt.notes = 1
    /\ mf.pc = "done" => mf.notes = 1

\* What C10 asks of one monitor.
Notified(m) ==
    /\ MonitorAlive(m) => m.notes = 0
    /\ m.pc = "done" =>
          m.notes = IF m.reason \in {"external", "errors"} THEN 1 ELSE 2

\* C10: no monitor ends silently and none sends more than two messages: an
\* external closure or an error exhaustion sends exactly one, a profit, stop
\* or failed-close exit sends two (the announcement of the order, then its
\* outcome).
C10_NotificationsAtExit == Notified(mt) /\ Notified(mf)

\* The spot monitor ended on its stop-loss having sent two messages.
C10_Witness == mt.pc = "done" /\ mt.reason = "stop_close_failed" /\ mt.notes = 2

\* A call of the given kind that has returned.
Called(op) == calc.op = op /\ calc.done

\* C11 (as the specification states it): the P&L the spot monitor compares
\* with its thresholds is (current price - entry price) x the quantity
\* recorded at the opening fill, whatever the wallet balance is.
C11_PnlUsesRecordedQuantity ==
    Called("spot_poll") =>
        calc.out.pnl = (calc.in.current_price - calc.in.buy_price) * calc.in.quantity

\* C12 (as the specification states it): when the spot monitor sells on
\* profit or stop, the quantity sold is the quantity recorded at the opening
\* fill, whatever the wallet balance read at that moment.
C12_SellsRecordedQuantity ==
    [][mt.pc \in {"close_profit", "close_stop"} /\ mt'.reason \in {"profit", "stop"} =>
          wallet - wallet' = mt.quantity]_vars

\* C13 (as the specification states it): the derivatives monitor enters its
\* profit branch exactly when the unrealized profit the exchange reports
\* reaches the target, and its stop branch exactly when that value, below
\* the target, reaches minus a stop-loss that is set.
C13_DecidesOnUnrealizedPnl ==
    Called("futures_poll") =>
        LET u == calc.in.unrealized_pnl
            profit == u >= calc.in.profit_target
            stop == calc.in.stop_loss # Nil /\ u <= 0 - calc.in.stop_loss
        IN  /\ calc.out.monitor.pc = "close_profit" <=> profit
            /\ calc.out.monitor.pc = "close_stop" <=> (~profit /\ stop)

\* The price move in favour of a position of the given side.
Gain(side, entry_price, price) ==
    IF side = "LONG" THEN price - entry_price ELSE entry_price - price

\* C14: a derivatives poll overwrites the recorded quantity with the
\* quantity the exchange reports exactly when the two differ by more than
\* 0.001 (two half-thousandths: a difference of 0.002 updates, one of 0.0005
\* or of 0.001 does not); the poll that updates does not end the monitor,
\* and the realized amount of a close is computed with the quantity the
\* monitor holds after the update.
C14_QuantityReconciled ==
    /\ Called("quantity_check") =>
          (calc.out <=> Abs(calc.in.actual_qty - calc.in.quantity) > 2)
    /\ Called("futures_poll") =>
          /\ calc.out.monitor.quantity = Abs(calc.in.position_amt)
          /\ MonitorAlive(calc.out.monitor)
          /\ calc.out.realized =
                Gain(calc.in.side, calc.in.entry_price, calc.in.current_price)
                    * Abs(calc.in.position_amt)

\* A poll found a position larger than recorded, took over its size and
\* went on polling.
C14_Witness ==
    /\ Called("futures_poll")
    /\ Abs(calc.in.position_amt) > calc.in.quantity
    /\ calc.out.monitor.quantity = Abs(calc.in.position_amt)
    /\ calc.out.monitor.pc = "run"

\* C15 (as the specification states it): a derivatives poll in which the
\* exchange reports an entry price other than the recorded one overwrites
\* the monitor's entry price with the reported one.
C15_EntryPriceReconciled ==
    Called("futures_poll") /\ calc.in.reported_entry # calc.in.entry_price =>
        calc.out.monitor.entry = calc.in.reported_entry

\* Nothing has happened to the slots, the threads or the account.
NothingChanged ==
    /\ active_trade = EmptyTrade
    /\ active_futures_trade = EmptyFuturesTrade
    /\ pc = [t \in Threads |-> "idle"]
    /\ loc = [t \in Threads |-> NoLocals]
    /\ mt = NoMonitor /\ mf = NoMonitor
    /\ wallet = 0

\* A stop-loss that is absent, or positive and below the amount.
StopLossFits(stop_loss, amount) ==
    stop_loss = Nil \/ (0 < stop_loss /\ stop_loss < amount)

\* The leverage-independent part of what the specification asks of a
\* /futures command.
FuturesArgumentsFit(in) ==
    /\ in.pair = "BTCUSDT"
    /\ in.amount >= 10
    /\ in.profit > 0
    /\ StopLossFits(in.stop_loss, in.amount)

\* C16 (as the specification states it): a /futures command with leverage
\* in 11..20 and otherwise valid arguments passes validation and claims the
\* slot.
C16_HighLeverageAccepted ==
    Called("futures") /\ FuturesArgumentsFit(calc.in) /\ calc.in.leverage \in 11..20 =>
        active_futures_trade.running /\ pc[Handler] = "futures_funds"

\* What the specification asks of a /trade command.
TradeArgumentsFit(in) ==
    /\ in.pair = "BTCUSDT"
    /\ in.amount >= 5
    /\ in.profit > 0
    /\ StopLossFits(in.stop_loss, in.amount)

\* C17: a /trade command passes validation exactly when its pair ends in
\* USDT and is listed, its amount is at least 5, its profit is positive and
\* its stop-loss is absent or positive and below the amount; a command that
\* does not is answered with the validation errors and changes nothing: no
\* slot claimed, no order, no position state.
C17_SpotValidation ==
    Called("trade") =>
        /\ TradeArgumentsFit(calc.in) <=> reply # "spot_invalid"
        /\ reply = "spot_invalid" => NothingChanged
        /\ reply # "spot_invalid" =>
              active_trade.running /\ pc[Handler] = "spot_order"

\* A /trade command whose stop-loss equals its amount was rejected.
C17_Witness ==
    /\ Called("trade")
    /\ calc.in.pair = "BTCUSDT" /\ calc.in.profit > 0
    /\ calc.in.amount >= 5 /\ calc.in.stop_loss = calc.in.amount
    /\ reply = "spot_invalid"

\* C18 (as the specification states it): a /futures command whose stop-loss
\* is present and not below the amount, or not positive, or whose amount
\* is below 10, is rejected by validation and changes nothing.
C18_FuturesStopLossChecked ==
    Called("futures") /\ (calc.in.amount < 10 \/ ~StopLossFits(calc.in.stop_loss, calc.in.amount)) =>
        reply = "futures_invalid" /\ NothingChanged

\* C19: a handler that has claimed a slot and fails before it records a
\* position (the opening order fails; for /futures also the balance is
\* short or the transfer fails) reports the failure, sets running back to
\* false and starts no monitor; in the balance and transfer cases it returns
\* from its funding step, before the order call.
C19_FailedOpenReleases ==
    [][\A t \in Threads :
         /\ pc[t] = "spot_order" /\ pc'[t] = "idle" =>
               /\ reply' = "spot_failed"
               /\ ~active_trade'.running
               /\ mt' = NoMonitor
         /\ pc[t] = "futures_funds" /\ pc'[t] = "idle" =>
               /\ reply' = "futures_no_funds"
               /\ ~active_futures_trade'.running
               /\ mf' = NoMonitor
         /\ pc[t] = "futures_order" /\ pc'[t] = "idle" =>
               /\ reply' = "futures_failed"
               /\ ~active_futures_trade'.running
               /\ mf' = NoMonitor
         /\ reply' = "futures_no_funds" /\ pc'[t] # pc[t] => pc[t] = "futures_funds"]_vars

\* A /futures command gave up for lack of funds while a spot position ran.
C19_Witness ==
    /\ reply = "futures_no_funds"
    /\ ~active_futures_trade.running /\ mf = NoMonitor
    /\ MonitorAlive(mt)

\* C20: the market check never blocks an open: a command that passes
\* validation while its slot is free claims the slot and goes on to its
\* opening order whether the check found the market favorable, found it
\* unfavorable, or failed.
C20_MarketCheckAdvisory ==
    /\ Called("trade")
       /\ validate_trade_inputs(calc.in.pair, calc.in.amount, calc.in.profit,
                                calc.in.stop_loss) = {} =>
          active_trade.running /\ pc[Handler] = "spot_order"
    /\ Called("futures")
       /\ validate_futures_inputs(calc.in.pair, calc.in.amount, calc.in.profit,
                                  calc.in.stop_loss, calc.in.leverage) = {} =>
          active_futures_trade.running /\ pc[Handler] = "futures_funds"

\* A /futures command claimed its slot although the market check failed.
C20_Witness ==
    /\ Called("futures")
    /\ calc.in.market = "error"
    /\ active_futures_trade.running /\ pc[Handler] = "futures_funds"

\* A quantity that is a whole number of steps.
Aligned(quantity, step_size) == quantity % step_size = 0

\* C21 (as the specification states it): the rounding of spot close and
\* derivatives open returns a quantity that is already a whole number of
\* steps unchanged, and applying it twice equals applying it once.
C21_FlooringIdempotent ==
    Called("floor_to_step") =>
        /\ Aligned(calc.in.quantity, calc.in.step_size) => calc.out.once = calc.in.quantity
        /\ calc.out.twice = calc.out.once

\* The candles an indicator of a period needs: EMA one per period, ATR one
\* more than its period.
EmaNeeds(period) == period

AtrNeeds(period) == period + 1

TooShort(klines) ==
    \/ Len(klines) < EmaNeeds(9)
    \/ Len(klines) < EmaNeeds(20)
    \/ Len(klines) < AtrNeeds(14)

\* C22: on every candle sequence too short for EMA(9), EMA(20) or ATR(14),
\* the empty one included, the technical filter returns valid = false with
\* the insufficient-data reason, and nothing else.
C22_ShortSequencesInsufficient ==
    Called("market_check") /\ calc.in.fetched /\ TooShort(calc.in.klines) =>
        /\ ~calc.out.valid
        /\ calc.out.reason = <<"Insufficient data for technical analysis">>
        /\ calc.out = InsufficientData

\* Nineteen candles, enough for EMA(9) and ATR(14) but not for EMA(20), were
\* answered with insufficient data.
C22_Witness ==
    /\ Called("market_check")
    /\ Len(calc.in.klines) = 19
    /\ calc.out = InsufficientData

\* The slope and the volatility the filter reports, against the thresholds.
SlopeEnough(out) == ~Less(Magnitude(out.ema_slope), Frac(15, 100))

VolatilityEnough(out) == ~Less(out.atr_percent, Frac(10, 100))

\* C23: given enough candles (and a price to divide by), the filter returns
\* valid = true exactly when |ema_slope| >= 0.15 and atr_percent >= 0.10;
\* a valid result is BULLISH exactly when ema_slope > 0 and BEARISH
\* otherwise; and when both flags are raised the reason names both.
C23_ValidIffBothThresholds ==
    /\ Called("market_check")
    /\ calc.in.fetched
    /\ ~TooShort(calc.in.klines)
    /\ calc.in.klines[Len(calc.in.klines)].close > 0
    => LET out == calc.out
       IN  /\ out.ema_slope # NoNumber /\ out.atr_percent # NoNumber
           /\ out.valid <=> SlopeEnough(out) /\ VolatilityEnough(out)
           /\ out.valid =>
                 out.trend = (IF out.ema_slope.n > 0 THEN "BULLISH" ELSE "BEARISH")
           /\ ~SlopeEnough(out) /\ ~VolatilityEnough(out) =>
                 out.reason = <<"Sideways market detected", "Low volatility">>

\* A sequence whose slope is exactly 0.15 and whose ATR is exactly 0.10 per
\* cent of the price passed the filter as BULLISH.
C23_Witness ==
    /\ Called("market_check")
    /\ calc.out.valid
    /\ calc.out.ema_slope = Frac(15, 100)
    /\ calc.out.atr_percent = Frac(10, 100)
    /\ calc.out.trend = "BULLISH"

\* The calls that open a position.
OpeningCall == Called("buy_order") \/ Called("futures_order")

\* The order status gave no price: the query raised, or the average price
\* was absent or zero.
NoStatusPrice(x, query) ==
    x.raises = query \/ x.status.avgPrice \in {Nil, 0}

\* C24 (as the specification states it): once the exchange has accepted the
\* opening market order the open returns success, whatever the order-status
\* query does afterwards; without a price from the exchange the result
\* carries the pre-order ticker price, and without an executed quantity the
\* requested quantity.
C24_AcceptedOpenSucceeds ==
    /\ OpeningCall /\ calc.out.accepted => calc.out.success
    /\ Called("futures_order") /\ calc.out.accepted
       /\ NoStatusPrice(calc.in.exchange, "futures_get_order") =>
           calc.out.price = Whole(calc.in.exchange.price)

\* C25 (as the specification states it): an open command never returns with
\* its opening order accepted by the exchange, the slot not running and no
\* monitor started.
C25_ReleasedOnlyUnaccepted ==
    /\ Called("spot_open") /\ calc.out.accepted =>
          active_trade.running \/ mt # NoMonitor
    /\ Called("futures_open") /\ calc.out.accepted =>
          active_futures_trade.running \/ mf # NoMonitor

\* The requests of the fill-price stages.
TradesLookups == {"get_my_trades", "futures_account_trades"}

StatusQueries == {"get_order", "futures_get_order"}

Tickers == {"get_symbol_ticker", "futures_symbol_ticker"}

Submissions == {"order_market_buy", "futures_create_order"}

\* The requests made after the order was sent.
AfterSubmission(calls) ==
    LET at == CHOOSE i \in 1..Len(calls) : calls[i] \in Submissions
    IN  SubSeq(calls, at + 1, Len(calls))

Count(calls, requests) ==
    Cardinality({i \in 1..Len(calls) : calls[i] \in requests})

\* C26 (as the specification states it): after the order was accepted the
\* price is sought in the fills, then in the recent trades of the order (at
\* most 8 lookups), then in the order status, then at the ticker, each only
\* after every earlier stage gave no price.
C26_StagesInOrder ==
    OpeningCall /\ calc.out.accepted =>
        LET after == AfterSubmission(calc.out.calls)
        IN  /\ Count(after, TradesLookups) <= 8
            /\ \A i \in 1..Len(after) :
                  /\ after[i] \in StatusQueries =>
                        \E j \in 1..(i - 1) : after[j] \in TradesLookups
                  /\ after[i] \in Tickers =>
                        \E j \in 1..(i - 1) : after[j] \in StatusQueries

\* C27 (as the specification states it): the quantity a spot open submits
\* is amount / price rounded down to the lot step: a whole number of steps
\* that never exceeds amount / price.
C27_BuyQuantityRoundedDown ==
    Called("buy_order") /\ calc.out.order # NoOrder /\ calc.in.exchange.step_size > 0 =>
        LET quantity == calc.out.order.quantity
        IN  /\ quantity.d = 1
            /\ Aligned(quantity.n, calc.in.exchange.step_size)
            /\ ~Less(Frac(calc.in.amount_usd * Ticks, calc.in.exchange.price), quantity)

\* The largest whole number of steps within a quantity n / d.
FlooredExactly(n, d, step_size) ==
    IF step_size > 0 THEN ((n \div d) \div step_size) * step_size ELSE n \div d

\* C28 (as the specification states it): a spot close floors the requested
\* quantity to the step size; a floored quantity below the minimum is
\* answered with the insufficient-quantity failure and no sell order; a sell
\* order carries the floored quantity, which is at least the minimum.
C28_SellFlooredAboveMinimum ==
    Called("sell_order") /\ calc.in.exchange.raises # "get_symbol_info" =>
        LET x == calc.in.exchange
            floored == FlooredExactly(calc.in.quantity, 1, x.step_size)
        IN  /\ floored < x.min_qty =>
                  /\ ~calc.out.success /\ calc.out.error = "below_minimum"
                  /\ calc.out.order = NoOrder
            /\ calc.out.order # NoOrder =>
                  /\ calc.out.order.quantity = Whole(floored)
                  /\ floored >= x.min_qty

\* Whatever the rounding made of the quantity, a sell order carries at least
\* the minimum, and the insufficient-quantity failure sends none.
SellNeverBelowMinimum ==
    Called("sell_order") =>
        /\ calc.out.order # NoOrder =>
              ~Less(calc.out.order.quantity, Whole(calc.in.exchange.min_qty))
        /\ calc.out.error = "below_minimum" =>
              calc.out.order = NoOrder /\ ~calc.out.success

\* C29 (as the specification states it): a derivatives open computes the
\* quantity amount x leverage / price floored to the step, submits the
\* minimum instead when that is below the minimum, fails without an order
\* when the result is not positive, and submits only quantities that are
\* positive and at least the minimum.
C29_FuturesQuantity ==
    /\ Called("futures_order")
    /\ calc.in.exchange.raises \notin
          {"futures_change_leverage", "futures_symbol_ticker", "futures_exchange_info"}
    => LET x == calc.in.exchange
           raw == Frac(calc.in.amount_usd * calc.in.leverage * Ticks, x.price)
           floored == IF x.step_size > 0
                      THEN Whole(FlooredExactly(raw.n, raw.d, x.step_size))
                      ELSE raw
           quantity == IF Less(floored, Whole(x.min_qty)) THEN Whole(x.min_qty)
                       ELSE floored
       IN  /\ ~Less(Whole(0), quantity) => ~calc.out.success /\ calc.out.order = NoOrder
           /\ calc.out.order # NoOrder =>
                 /\ calc.out.order.quantity = quantity
                 /\ Less(Whole(0), calc.out.order.quantity)
                 /\ ~Less(calc.out.order.quantity, Whole(x.min_qty))

\* Whatever the rounding made of the quantity, a derivatives order is
\* positive and at least the minimum, and the too-small failure sends none.
FuturesNeverBelowMinimum ==
    Called("futures_order") =>
        /\ calc.out.order # NoOrder =>
              /\ Less(Whole(0), calc.out.order.quantity)
              /\ ~Less(calc.out.order.quantity, Whole(calc.in.exchange.min_qty))
        /\ calc.out.error = "too_small" => calc.out.order = NoOrder /\ ~calc.out.success

\* The place of a request in the list of calls, 0 if it was not made.
Place(calls, request) ==
    IF \E i \in 1..Len(calls) : calls[i] = request
    THEN CHOOSE i \in 1..Len(calls) : calls[i] = request
    ELSE 0

\* C30: in every derivatives open the leverage is set before the order is
\* sent; when setting the leverage fails no order is sent; and the order is
\* a buy for LONG and a sell for SHORT.
C30_LeverageBeforeOrder ==
    Called("futures_order") =>
        LET calls == calc.out.calls
        IN  /\ calc.out.order # NoOrder =>
                  /\ Place(calls, "futures_change_leverage") = 1
                  /\ Place(calls, "futures_create_order") > 1
                  /\ calc.in.side = "LONG" => calc.out.order.side = "BUY"
                  /\ calc.in.side = "SHORT" => calc.out.order.side = "SELL"
            /\ calc.out.order = NoOrder <=> Place(calls, "futures_create_order") = 0
            /\ calc.in.exchange.raises = "futures_change_leverage" =>
                  /\ calc.out.order = NoOrder
                  /\ ~calc.out.success /\ ~calc.out.accepted
                  /\ calls = <<"futures_change_leverage">>

\* A SHORT open set the leverage, sent a sell order and was accepted.
C30_Witness ==
    /\ Called("futures_order")
    /\ calc.in.side = "SHORT"
    /\ calc.out.order.side = "SELL"
    /\ calc.out.accepted
    /\ calc.out.calls[1] = "futures_change_leverage"

\* C31: a derivatives close reads the position from the exchange; a
\* positive size sends a sell and a negative size a buy, each for the
\* absolute size; a size of zero returns the no-open-position error and
\* sends no order.
C31_CloseSideFromPosition ==
    Called("close_futures") /\ calc.in.exchange.raises # "futures_position_information" =>
        LET position_amt == calc.in.exchange.position_amt
            out == calc.out
        IN  /\ out.calls[1] = "futures_position_information"
            /\ position_amt > 0 =>
                  out.order = [side |-> "SELL", quantity |-> Whole(position_amt)]
            /\ position_amt < 0 =>
                  out.order = [side |-> "BUY", quantity |-> Whole(0 - position_amt)]
            /\ position_amt # 0 => Place(out.calls, "futures_create_order") = 2
            /\ position_amt = 0 =>
                  /\ ~out.success /\ out.error = "No open position"
                  /\ out.order = NoOrder
                  /\ out.calls = <<"futures_position_information">>

\* A long position of three units was closed by a sell of three units.
C31_Witness ==
    /\ Called("close_futures")
    /\ calc.in.exchange.position_amt = 3 * Ticks
    /\ calc.out.success
    /\ calc.out.order = [side |-> "SELL", quantity |-> Whole(3 * Ticks)]

\* C34 (as the specification states it): the spot monitor ends as
\* externally closed, and clears the slot, only in a cycle in which the
\* wallet at the exchange holds less than 1% of the recorded quantity; a
\* balance query that fails ends nothing.
C34_ExternalOnlyOnReportedBalance ==
    [][mt.pc = "run" /\ mt'.reason = "external" =>
          ExternallyClosed(wallet, mt.quantity)]_vars

\* The thread that holds a lock before a step is the thread the step moves.
WrittenBy(lock) ==
    /\ sync.held[lock] # NoThread
    /\ sync'.at[sync.held[lock]] # sync.at[sync.held[lock]]

\* C32: every step that changes the entry price or the quantity of a slot
\* (the record after the opening fill, the monitor's correction of the
\* quantity, the reset at termination) is taken by the thread that holds
\* the lock of that slot.
C32_WritesUnderLock ==
    [][/\ (\/ active_trade'.buy_price # active_trade.buy_price
           \/ active_trade'.quantity # active_trade.quantity) => WrittenBy("trade_lock")
       /\ (\/ active_futures_trade'.entry_price # active_futures_trade.entry_price
           \/ active_futures_trade'.quantity # active_futures_trade.quantity)
              => WrittenBy("futures_lock")]_vars

\* The futures monitor has corrected the recorded quantity and released the
\* lock, while a spot position is recorded as well.
C32_Witness ==
    /\ sync.at[MonitorFuturesThread] = "monitor_futures_trade:830"
    /\ active_futures_trade.quantity \in Quantities \ FillQuantities
    /\ sync.held["futures_lock"] # MonitorFuturesThread
    /\ active_trade.quantity \in FillQuantities

\* A monitor thread that has been started and has not left its loop.
InLoop(monitor) == sync.at[monitor] \notin {"off", "done"}

\* The statements of a handler between its claim of the slot and its return.
SpotOpening == {"trade:1146", "trade:1153", "trade:1159", "trade:1180"}

FuturesOpening ==
    {"futures:1255", "futures:1267", "futures:1278", "futures:1285", "futures:1290",
     "futures:1294", "futures:1318"}

\* One monitor per slot, for the monitor thread of a slot, the statement
\* that starts it and the statements of the handlers that have claimed it.
OneMonitor(monitor, slot, start, opening) ==
    /\ (\E t \in Threads : sync.at[t] = start /\ sync'.at[t] = "idle") => ~InLoop(monitor)
    /\ (InLoop(monitor) /\ sync'.at[monitor] = "done") =>
           /\ LocksAt(sync.at[monitor]) # <<>>
           /\ slot.running /\ ~slot'.running
    /\ InLoop(monitor) =>
           /\ slot.running
           /\ \A t \in Threads : sync.at[t] \notin opening /\ sync'.at[t] \notin opening

\* C33: a monitor is started only while no monitor of its slot is in its
\* loop; a monitor leaves its loop only by a step in which it sets running
\* to false itself; and while a monitor is in its loop the slot is running
\* and no handler is between a claim of that slot and the start of a
\* monitor.
C33_OneMonitorPerSlot ==
    [][/\ OneMonitor(MonitorTradeThread, active_trade, "trade:1180", SpotOpening)
       /\ OneMonitor(MonitorFuturesThread, active_futures_trade, "futures:1318",
                     FuturesOpening)]_vars

\* The spot monitor has terminated, a later /trade has claimed the slot and
\* is about to start the next monitor, and the futures monitor is polling.
C33_Witness ==
    /\ sync.at[MonitorTradeThread] = "done"
    /\ \E t \in Threads : sync.at[t] = "trade:1180"
    /\ sync.at[MonitorFuturesThread] = "monitor_futures_trade:789"

\* The thread needs a lock that another thread holds.
Blocked(s, t) == \E l \in LockSet(s.at[t]) : s.held[l] \notin {t, NoThread}

\* C36: no thread takes a lock while it holds the other one; a thread holds
\* only the lock of the with-block it is in, so every return, break or end
\* of a block has released it; and a thread that waits for a lock waits for
\* a thread that is not waiting itself, so some thread can always go on.
C36_NoDeadlock ==
    [][\A t \in LockThreads :
         /\ \A l \in Locks :
              (sync'.held[l] = t /\ sync.held[l] # t) =>
                  \A other \in Locks \ {l} : sync.held[other] # t
         /\ \A l \in Locks : sync'.held[l] = t => l \in LockSet(sync'.at[t])
         /\ Blocked(sync', t) =>
              \A l \in LockSet(sync'.at[t]) :
                  sync'.held[l] \notin {t, NoThread} => ~Blocked(sync', sync'.held[l])]_vars

\* A /status handler is inside its lock block while the spot monitor waits
\* at its reset for the same lock, and a /fstatus handler holds the other
\* lock while the futures monitor waits for it.
C36_Witness ==
    /\ \E t \in Threads : sync.at[t] = "status:984" /\ sync.held["trade_lock"] = t
    /\ sync.at[MonitorTradeThread] = "monitor_trade:702"
    /\ \E t \in Threads : sync.at[t] = "fstatus:1039" /\ sync.held["futures_lock"] = t
    /\ Blocked(sync, MonitorFuturesThread)

\* The statements of the spot side (the /trade and /status handlers and
\* monitor_trade) and of the futures side.
SpotPoints == TradeLockPoints \cup {"trade:1146", "trade:1180", "monitor_trade:611"}

FuturesPoints ==
    FuturesLockPoints \cup {"futures:1255", "futures:1285", "futures:1318",
                            "monitor_futures_trade:789", "monitor_futures_trade:830"}

\* The step is taken by thread t: it goes on to another statement or takes
\* a lock.
Acts(t) ==
    \/ sync'.at[t] # sync.at[t]
    \/ \E l \in Locks : sync'.held[l] = t /\ sync.held[l] # t

\* C37: a step of the spot side leaves every field of the futures slot (and
\* the futures lock) as it was, a step of the futures side leaves the spot
\* slot and the spot lock as they were, and an open command is answered busy
\* only when its own slot is running.
C37_SlotsIndependent ==
    [][\A t \in LockThreads :
         /\ (Acts(t) /\ sync.at[t] \in SpotPoints) =>
                /\ active_futures_trade' = active_futures_trade
                /\ sync'.held["futures_lock"] = sync.held["futures_lock"]
         /\ (Acts(t) /\ sync.at[t] \in FuturesPoints) =>
                /\ active_trade' = active_trade
                /\ sync'.held["trade_lock"] = sync.held["trade_lock"]
         /\ (Holding(t) /\ sync.at[t] = "trade:1140" /\ sync'.at[t] = "idle") =>
                active_trade.running
         /\ (Holding(t) /\ sync.at[t] = "futures:1248" /\ sync'.at[t] = "idle") =>
                active_futures_trade.running]_vars

\* While the spot monitor polls a recorded position, a /futures command has
\* claimed the futures slot.
C37_Witness ==
    /\ sync.at[MonitorTradeThread] = "monitor_trade:611" /\ active_trade.running
    /\ \E t \in Threads : sync.at[t] = "futures:1255"
    /\ active_futures_trade.running /\ active_futures_trade.quantity = Nil

\* A handler that had claimed a slot returns in this step.
Returns(t, claimed) == pc[t] \in claimed /\ pc'[t] = "idle"

\* C35: a command that has claimed a slot eventually returns, and the step
\* in which it returns either has recorded the position and started the
\* slot's monitor, or has set running back to false.
C35_ClaimEndsInMonitorOrRelease ==
    /\ \A t \in Threads : SpotClaimed(t) ~> pc[t] = "idle"
    /\ \A t \in Threads : FuturesClaimed(t) ~> pc[t] = "idle"
    /\ [][\A t \in Threads :
            /\ Returns(t, {"spot_order", "spot_record"}) =>
                 \/ /\ mt.pc = "off" /\ mt'.pc = "run" /\ mt'.quantity = active_trade'.quantity
                    /\ active_trade'.running /\ active_trade'.quantity # Nil
                 \/ ~active_trade'.running /\ mt' = mt
            /\ Returns(t, {"futures_funds", "futures_order", "futures_record"}) =>
                 \/ /\ mf.pc = "off" /\ mf'.pc = "run"
                    /\ mf'.quantity = active_futures_trade'.quantity
                    /\ active_futures_trade'.running
                    /\ active_futures_trade'.quantity # Nil
                 \/ ~active_futures_trade'.running /\ mf' = mf]_vars

\* A /futures command has given up for lack of funds and released its slot,
\* after a /trade command had opened a position whose monitor is polling.
C35_Witness ==
    /\ reply = "futures_no_funds" /\ ~active_futures_trade.running
    /\ mt.pc = "run" /\ active_trade.running

====
